---- MODULE Spec2Model ----
(***************************************************************************)
(* HireAI: the resume ingestion and job-match scoring pipeline.            *)
(*                                                                         *)
(*   SpecJobMatch  app/api/resume-parser/job-match/route.ts  (POST)        *)
(*   SpecScoring   the same file, analyzeCandidateJobMatch on its own      *)
(*   SpecUpload    app/api/resume-parser/upload/route.ts     (POST)        *)
(*   SpecLegacyUpload  app/api/resume/upload/route.ts        (POST)        *)
(*   SpecValidate  lib/resume-parser.ts, validateResumeFile                *)
(*   SpecParse     upload/route.ts, parseResumeWithGemini on its own       *)
(*   SpecBatch     the batch-analysis route (POST, analyzeBatchResumes)    *)
(*   SpecPage      app/(recruiter)/resume-parser/page.tsx, handleFiles     *)
(*                                                                         *)
(* JavaScript values are modelled with their dynamic type: a JSON value    *)
(* returned by the external model is a record [t, v] (t its typeof-like    *)
(* tag), a JavaScript number is [nan, v] so that NaN is a value of its     *)
(* own, as it is in the runtime.                                           *)
(***************************************************************************)
EXTENDS Integers, Sequences, FiniteSets

VARIABLES
    jmPc,          \* position of the job-match POST handler
    jmBody,        \* the request body as received
    jmPending,     \* indexes of candidates whose scoring call is outstanding
    jmOutcome,     \* what the external model answered per candidate index
    jmAnalyses,    \* the slots of Promise.all: one analysis per candidate index
    jmRanked,      \* rankedCandidates (sorted, with rank)
    jmAverage,     \* averageScore
    jmCalls,       \* external-model calls issued: [scoring, insights]
    jmInsightsOut, \* what the external model answered to the insights call
    jmResponse,    \* the HTTP response, once returned
    scCandidate,   \* analyzeCandidateJobMatch alone: its candidate,
    scOutcome,     \*   what the external model answers,
    scResult,      \*   and the value its promise resolves with
    upPc,          \* position of the resume-parser upload handler
    upFiles,       \* the files of the multipart form
    upIdx,         \* index of the file being processed (i + 1 of the loop)
    upResults,     \* results: the ProcessingResults pushed so far
    upResult,      \* result: the ProcessingResult of the current iteration
    upAnswers,     \* per file: what the local library and the external model answered
    upCalls,       \* per file: OCR, local DOCX and structured-parse calls issued
    upResponse,    \* the upload response, once returned
    uploads,       \* the files in the uploads directory
    lgPc,          \* position of the single-file upload handler (api/resume/upload)
    lgFile,        \* the file of its form
    lgServed,      \* requests that handler has answered
    lgCalls,       \* text-extraction calls that handler has issued
    lgAnswer,      \* what the external model answered to its latest call
    lgResponse,    \* its latest response
    vlFile,        \* validateResumeFile alone: the File it is given
    vlResult,      \*   and what it returns
    psAnswer,      \* parseResumeWithGemini alone: what generateContent answers,
    psParsed,      \*   the texts handed to JSON.parse, in order,
    psResult,      \*   and what the function returns or throws
    baPc,          \* position of the batch-analysis POST handler
    baBody,        \* its request body
    baStats,       \* the statistics analyzeBatchResumes computed
    baInsightsOut, \* what the external model answered to its insights call
    baCalls,       \* external-model calls it issued
    baResponse,    \* its response, once returned
    pgResults,     \* the page's parsingResults state
    pgIsUploading, \* its isUploading state
    pgInFlight,    \* handleFiles invocations awaiting uploadResumes
    pgPickerOpen,  \* the file picker of the hidden input is open
    pgInvocations, \* handleFiles invocations so far
    pgDelivered    \* results that successful uploads have delivered

jmVars == <<jmPc, jmBody, jmPending, jmOutcome, jmAnalyses,
            jmRanked, jmAverage, jmCalls, jmInsightsOut, jmResponse>>

upVars == <<upPc, upFiles, upIdx, upResults, upResult, upAnswers, upCalls, upResponse>>

lgVars == <<lgPc, lgFile, lgServed, lgCalls, lgAnswer, lgResponse>>

scVars == <<scCandidate, scOutcome, scResult>>

vlVars == <<vlFile, vlResult>>

psVars == <<psAnswer, psParsed, psResult>>

baVars == <<baPc, baBody, baStats, baInsightsOut, baCalls, baResponse>>

pgVars == <<pgResults, pgIsUploading, pgInFlight, pgPickerOpen, pgInvocations, pgDelivered>>

vars == <<jmVars, scVars, upVars, lgVars, vlVars, psVars, baVars, pgVars, uploads>>

(***************************************************************************)
(* Bounds of the model.                                                    *)
(***************************************************************************)
MaxCandidates == 4
MaxFiles == 2
MaxUploads == 3
MaxNameLen == 5
MaxTextLen == 5
MaxPool == 4
MaxInvocations == 3
MaxPicked == 2

(***************************************************************************)
(* JavaScript numbers and JSON values.                                     *)
(***************************************************************************)
Num(n) == [nan |-> FALSE, v |-> n]
NaN == [nan |-> TRUE, v |-> 0]

JUndefined == [t |-> "undefined", v |-> 0]
JNull == [t |-> "null", v |-> 0]
JNumber(n) == [t |-> "number", v |-> n]
\* a JSON string that does not read as a number, e.g. "high" or "85%"
JText == [t |-> "string", v |-> 0]

\* x is falsy: the left operand of `x || 0` is dropped
Falsy(x) == x.t \in {"undefined", "null"} \/ (x.t = "number" /\ x.v = 0)

\* analysis.score || 0
OrZero(x) == IF Falsy(x) THEN JNumber(0) ELSE x

\* ToNumber, as Math.max applies it to its arguments
ToNumber(x) ==
    CASE x.t = "number" -> Num(x.v)
      [] x.t = "null" -> Num(0)
      [] OTHER -> NaN

MathMax(a, b) ==
    IF a.nan \/ b.nan THEN NaN ELSE IF a.v >= b.v THEN a ELSE b

MathMin(a, b) ==
    IF a.nan \/ b.nan THEN NaN ELSE IF a.v <= b.v THEN a ELSE b

(***************************************************************************)
(* The job-match request body.                                             *)
(***************************************************************************)
Names == <<"Ann", "Bob", "Cyd", "Dee", "Eve", "Fay">>
Emails == <<"ann@x.io", "bob@x.io", "cyd@x.io", "dee@x.io", "eve@x.io", "fay@x.io">>

\* candidateData at position i of the candidates array. extractedData may be
\* absent: the handler never checks the shape of an array element.
CandidateData(i, hasData) ==
    [id |-> i,
     extractedData |-> [present |-> hasData, name |-> Names[i], email |-> Emails[i]]]

CandidateLists ==
    UNION {{[i \in 1..n |-> CandidateData(i, shape[i])] : shape \in [1..n -> BOOLEAN]}
           : n \in 0..MaxCandidates}

\* jobDescription as it arrives: absent, not a string, "", blanks only, or text
JobDescriptions == {"absent", "number", "empty", "blank", "text"}

\* The bodies a client may send. Every shape of jobDescription is paired with
\* the candidate lists of at most one element, and every candidate list with
\* a textual jobDescription: after the two checks at the top of the handler
\* the description is only copied into prompts.
JobMatchBodies ==
    [malformed : {TRUE}, candidates : {"absent"}, list : {<<>>},
     jobDescription : {"text"}]
    \cup [malformed : {FALSE}, candidates : {"absent", "object"}, list : {<<>>},
          jobDescription : JobDescriptions]
    \cup [malformed : {FALSE}, candidates : {"array"},
          list : {l \in CandidateLists : Len(l) <= 1},
          jobDescription : JobDescriptions]
    \cup [malformed : {FALSE}, candidates : {"array"}, list : CandidateLists,
          jobDescription : {"text"}]

\* !candidates || !Array.isArray(candidates) || candidates.length === 0
NoCandidates(body) == body.candidates # "array" \/ Len(body.list) = 0

\* !jobDescription || typeof jobDescription !== 'string'
NoJobDescription(body) == body.jobDescription \in {"absent", "number", "empty"}

(***************************************************************************)
(* analyzeCandidateJobMatch                                                *)
(***************************************************************************)
\* the JSON values a score field of the answer may hold: absent, null, a
\* number below, at, inside or above the range, or a string that is no number
RawScores == {JUndefined, JNull, JNumber(-20), JNumber(0), JNumber(85), JNumber(120), JText}

AbsentBreakdown ==
    [present |-> FALSE, skillsMatch |-> JUndefined, experienceMatch |-> JUndefined,
     educationMatch |-> JUndefined, overallFit |-> JUndefined]

RawBreakdowns ==
    {AbsentBreakdown}
    \cup [present : {TRUE}, skillsMatch : RawScores, experienceMatch : RawScores,
          educationMatch : RawScores, overallFit : RawScores]

\* an answer object; wellTyped: strengths, weaknesses and recommendation are
\* there with the types asked for, otherwise they are absent or no arrays
RawAnalysis(score, breakdown, wellTyped) ==
    [score |-> score,
     matchBreakdown |-> breakdown,
     strengths |-> [isArray |-> wellTyped, items |-> <<"Strong skills">>],
     weaknesses |-> [isArray |-> wellTyped, items |-> <<"No cloud">>],
     recommendation |-> [present |-> wellTyped, text |-> "Interview"]]

NoRaw == RawAnalysis(JUndefined, AbsentBreakdown, FALSE)

\* the outcome of one generateContent call followed by the JSON cleanup:
\* the call throws, the text is no JSON, the text is the JSON null, or the
\* text is a JSON object
AllScoringOutcomes ==
    {[kind |-> "throw", analysis |-> NoRaw],
     [kind |-> "unparsable", analysis |-> NoRaw],
     [kind |-> "null", analysis |-> NoRaw]}
    \cup {[kind |-> "object", analysis |-> RawAnalysis(sc, mb, wt)] :
             sc \in RawScores, mb \in RawBreakdowns, wt \in BOOLEAN}

\* the outcomes drawn per candidate within a request: the two failures, an
\* answer in range and an answer whose score is no number
ScoringOutcomes ==
    {[kind |-> "throw", analysis |-> NoRaw],
     [kind |-> "unparsable", analysis |-> NoRaw],
     [kind |-> "object",
      analysis |-> RawAnalysis(JNumber(85),
                               [present |-> TRUE, skillsMatch |-> JNumber(120),
                                experienceMatch |-> JNumber(-20),
                                educationMatch |-> JUndefined,
                                overallFit |-> JNumber(70)], TRUE)],
     [kind |-> "object", analysis |-> RawAnalysis(JText, AbsentBreakdown, FALSE)]}

NoOutcome == [kind |-> "none", analysis |-> NoRaw]

\* Math.min(100, Math.max(0, raw || 0))
ClampScore(raw) == MathMin(Num(100), MathMax(Num(0), ToNumber(OrZero(raw))))

\* analysis.matchBreakdown?.field
BreakdownField(mb, field) == IF mb.present THEN mb[field] ELSE JUndefined

\* lines 147-161: the result built from a parsed analysis
ParsedAnalysis(cd, a) ==
    [candidateId |-> cd.id,
     name |-> cd.extractedData.name,
     email |-> cd.extractedData.email,
     score |-> ClampScore(a.score),
     matchBreakdown |->
        [skillsMatch |-> ClampScore(BreakdownField(a.matchBreakdown, "skillsMatch")),
         experienceMatch |-> ClampScore(BreakdownField(a.matchBreakdown, "experienceMatch")),
         educationMatch |-> ClampScore(BreakdownField(a.matchBreakdown, "educationMatch")),
         overallFit |-> ClampScore(BreakdownField(a.matchBreakdown, "overallFit"))],
     strengths |-> IF a.strengths.isArray THEN a.strengths.items ELSE <<>>,
     weaknesses |-> IF a.weaknesses.isArray THEN a.weaknesses.items ELSE <<>>,
     recommendation |-> IF a.recommendation.present THEN a.recommendation.text
                        ELSE "Analysis incomplete"]

\* the catch block defaulting every score to 0 instead of 50
DefaultAnalysisZero(cd) ==
    [candidateId |-> cd.id,
     name |-> cd.extractedData.name,
     email |-> cd.extractedData.email,
     score |-> Num(0),
     matchBreakdown |-> [skillsMatch |-> Num(0), experienceMatch |-> Num(0),
                         educationMatch |-> Num(0), overallFit |-> Num(0)],
     strengths |-> <<"Unable to analyze">>,
     weaknesses |-> <<"Analysis failed">>,
     recommendation |-> "Manual review recommended - automated analysis failed"]

\* lines 162-181: the default analysis of the catch block
DefaultAnalysis(cd) ==
    [candidateId |-> cd.id,
     name |-> cd.extractedData.name,
     email |-> cd.extractedData.email,
     score |-> Num(50),
     matchBreakdown |-> [skillsMatch |-> Num(50), experienceMatch |-> Num(50),
                         educationMatch |-> Num(50), overallFit |-> Num(50)],
     strengths |-> <<"Unable to analyze">>,
     weaknesses |-> <<"Analysis failed">>,
     recommendation |-> "Manual review recommended - automated analysis failed"]

\* the try block throws: generateContent rejects, JSON.parse throws, or
\* analysis.score is read of null
ScoringFails(outcome) == outcome.kind \in {"throw", "unparsable", "null"}

\* the value the promise of analyzeCandidateJobMatch resolves with
AnalyzeCandidateJobMatch(cd, outcome) ==
    IF ScoringFails(outcome) THEN DefaultAnalysis(cd)
    ELSE ParsedAnalysis(cd, outcome.analysis)

\* lines 67-73 run before the try block: candidate.skills.join on an absent
\* extractedData throws, and the promise rejects
PromptThrows(cd) == ~cd.extractedData.present

NoAnalysis ==
    [candidateId |-> 0, name |-> "", email |-> "", score |-> Num(0),
     matchBreakdown |-> [skillsMatch |-> Num(0), experienceMatch |-> Num(0),
                         educationMatch |-> Num(0), overallFit |-> Num(0)],
     strengths |-> <<>>, weaknesses |-> <<>>, recommendation |-> ""]

\* analyzeCandidateJobMatch on its own, over every answer of the model
ScInit ==
    /\ scCandidate \in {CandidateData(i, TRUE) : i \in 1..2}
    /\ scOutcome \in AllScoringOutcomes
    /\ scResult = NoAnalysis

ScAnalyze ==
    /\ scResult = NoAnalysis
    /\ scResult' = AnalyzeCandidateJobMatch(scCandidate, scOutcome)
    /\ UNCHANGED <<scCandidate, scOutcome>>

ScIdle == scCandidate = CandidateData(1, TRUE) /\ scOutcome = NoOutcome /\ scResult = NoAnalysis

(***************************************************************************)
(* Ranking: Array.prototype.sort with (a, b) => b.score - a.score          *)
(***************************************************************************)
\* the comparator's result as the sort reads it: -1, 0 or 1; a NaN result
\* is read as +0
CompareScores(a, b) ==
    IF a.score.nan \/ b.score.nan THEN 0
    ELSE IF b.score.v < a.score.v THEN -1
    ELSE IF b.score.v > a.score.v THEN 1
    ELSE 0

\* x placed before the first element it must precede, behind its equals
RECURSIVE InsertSorted(_, _)
InsertSorted(sorted, x) ==
    IF sorted = <<>> THEN <<x>>
    ELSE IF CompareScores(x, Head(sorted)) < 0 THEN <<x>> \o sorted
    ELSE <<Head(sorted)>> \o InsertSorted(Tail(sorted), x)

RECURSIVE StableSort(_)
StableSort(seq) ==
    IF seq = <<>> THEN <<>>
    ELSE InsertSorted(StableSort(SubSeq(seq, 1, Len(seq) - 1)), seq[Len(seq)])

\* the comparator orders the elements consistently: "compares equal" is
\* transitive. A NaN score compares equal to everything, so it is consistent
\* only when all the numeric scores are equal.
ConsistentComparator(seq) ==
    \A i, j, k \in 1..Len(seq) :
        (CompareScores(seq[i], seq[j]) = 0 /\ CompareScores(seq[j], seq[k]) = 0)
            => CompareScores(seq[i], seq[k]) = 0

Reorderings(seq) ==
    {[i \in 1..Len(seq) |-> seq[p[i]]] :
        p \in {q \in [1..Len(seq) -> 1..Len(seq)] :
                  \A i, j \in 1..Len(seq) : q[i] = q[j] => i = j}}

\* the orders sort may leave the array in: the stable sorted order, or, with
\* an inconsistent comparator, an order the language leaves to the engine
SortOutcomes(seq) ==
    IF ConsistentComparator(seq) THEN {StableSort(seq)} ELSE Reorderings(seq)

\* { ...candidate, rank }
WithRank(a, r) ==
    [candidateId |-> a.candidateId, name |-> a.name, email |-> a.email,
     score |-> a.score, rank |-> r, matchBreakdown |-> a.matchBreakdown,
     strengths |-> a.strengths, weaknesses |-> a.weaknesses,
     recommendation |-> a.recommendation]

\* rank: index + 1
RankOf(index) == index + 1

\* .map((candidate, index) => ({ ...candidate, rank: index + 1 })), index from 0
AssignRanks(sorted) == [i \in 1..Len(sorted) |-> WithRank(sorted[i], RankOf(i - 1))]

RECURSIVE SumScores(_)
SumScores(seq) ==
    IF seq = <<>> THEN Num(0)
    ELSE LET rest == SumScores(Tail(seq))
         IN  IF rest.nan \/ Head(seq).score.nan THEN NaN
             ELSE Num(Head(seq).score.v + rest.v)

\* Math.round(sum / n) for sum >= 0: halves round up
RoundedMean(sum, n) == IF sum.nan THEN NaN ELSE Num((2 * sum.v + n) \div (2 * n))

AverageScore(ranked) == RoundedMean(SumScores(ranked), Len(ranked))

TopCount == 5

\* rankedCandidates.slice(0, 5)
TopCandidates(ranked) ==
    SubSeq(ranked, 1, IF Len(ranked) < TopCount THEN Len(ranked) ELSE TopCount)

(***************************************************************************)
(* generateJobMatchInsights                                                *)
(***************************************************************************)
RawInsights(arrays) ==
    [bestSkillMatches |-> [isArray |-> arrays, items |-> <<"Python">>],
     commonGaps |-> [isArray |-> arrays, items |-> <<"Cloud">>],
     recommendedActions |-> [isArray |-> TRUE, items |-> <<"Interview top 3">>]]

InsightsOutcomes ==
    {[kind |-> "throw", insights |-> RawInsights(TRUE)],
     [kind |-> "unparsable", insights |-> RawInsights(TRUE)],
     [kind |-> "object", insights |-> RawInsights(TRUE)],
     [kind |-> "object", insights |-> RawInsights(FALSE)]}

NoInsightsOutcome == [kind |-> "none", insights |-> RawInsights(TRUE)]

DefaultInsights ==
    [bestSkillMatches |-> <<>>, commonGaps |-> <<>>,
     recommendedActions |-> <<"Manual review recommended">>]

ArrayOrEmpty(x) == IF x.isArray THEN x.items ELSE <<>>

InsightsFails(outcome) == outcome.kind \in {"throw", "unparsable"}

GenerateJobMatchInsights(outcome) ==
    IF InsightsFails(outcome) THEN DefaultInsights
    ELSE [bestSkillMatches |-> ArrayOrEmpty(outcome.insights.bestSkillMatches),
          commonGaps |-> ArrayOrEmpty(outcome.insights.commonGaps),
          recommendedActions |-> ArrayOrEmpty(outcome.insights.recommendedActions)]

NoInsights == [bestSkillMatches |-> <<>>, commonGaps |-> <<>>, recommendedActions |-> <<>>]

(***************************************************************************)
(* POST /api/resume-parser/job-match                                       *)
(***************************************************************************)
NoResult ==
    [totalCandidates |-> 0, averageScore |-> Num(0), topCandidates |-> <<>>,
     leaderboard |-> <<>>, matchInsights |-> NoInsights]

NoResponse == [status |-> 0, error |-> "", result |-> NoResult]

ErrorResponse(status, error) == [status |-> status, error |-> error, result |-> NoResult]

SuccessResponse(result) == [status |-> 200, error |-> "", result |-> result]

NoBody == [malformed |-> FALSE, candidates |-> "absent", list |-> <<>>,
           jobDescription |-> "absent"]

JmInit ==
    /\ jmPc = "idle"
    /\ jmBody = NoBody
    /\ jmPending = {}
    /\ jmOutcome = <<>>
    /\ jmAnalyses = <<>>
    /\ jmRanked = <<>>
    /\ jmAverage = Num(0)
    /\ jmCalls = [scoring |-> 0, insights |-> 0]
    /\ jmInsightsOut = NoInsightsOutcome
    /\ jmResponse = NoResponse

\* the indexes whose analyzeCandidateJobMatch reaches generateContent
Issued(list) == {i \in 1..Len(list) : ~PromptThrows(list[i])}

\* the handler up to `await Promise.all`: the two checks, then the map that
\* starts every candidate's analysis. A promise rejected before its call is
\* issued rejects Promise.all, and the outer catch answers 500.
JmRespondEarly(body, response) ==
    /\ jmPc' = "done"
    /\ jmBody' = body
    /\ jmResponse' = response
    /\ UNCHANGED <<jmPending, jmOutcome, jmAnalyses, jmRanked, jmAverage, jmCalls,
                   jmInsightsOut>>

JmReceive(body) ==
    /\ jmPc = "idle"
    /\ IF body.malformed
         THEN JmRespondEarly(body, ErrorResponse(500, "Failed to analyze job matches"))
       ELSE IF NoCandidates(body)
         THEN JmRespondEarly(body, ErrorResponse(400, "No candidates provided"))
       ELSE IF NoJobDescription(body)
         THEN JmRespondEarly(body, ErrorResponse(400, "Job description is required"))
       ELSE /\ jmBody' = body
            /\ jmCalls' = [jmCalls EXCEPT !.scoring = Cardinality(Issued(body.list))]
            /\ jmOutcome' = [i \in 1..Len(body.list) |-> NoOutcome]
            /\ jmAnalyses' = [i \in 1..Len(body.list) |-> NoAnalysis]
            /\ IF Issued(body.list) = 1..Len(body.list)
                 THEN /\ jmPc' = "scoring"
                      /\ jmPending' = Issued(body.list)
                      /\ jmResponse' = jmResponse
                 ELSE /\ jmPc' = "done"
                      /\ jmPending' = Issued(body.list)
                      /\ jmResponse' = ErrorResponse(500, "Failed to analyze job matches")
            /\ UNCHANGED <<jmRanked, jmAverage, jmInsightsOut>>

\* the results pushed to a shared array as the calls complete
StoreResultInArrivalOrder(slots, i, a) ==
    LET free == {k \in 1..Len(slots) : slots[k] = NoAnalysis}
        first == CHOOSE k \in free : \A m \in free : k <= m
    IN  [slots EXCEPT ![first] = a]

\* Promise.all keeps each value at the index of its promise
StoreResult(slots, i, a) == [slots EXCEPT ![i] = a]

\* one scoring call completes, in any order
JmResolve(i, outcome) ==
    /\ jmPc = "scoring"
    /\ i \in jmPending
    /\ jmPending' = jmPending \ {i}
    /\ jmOutcome' = [jmOutcome EXCEPT ![i] = outcome]
    /\ jmAnalyses' = StoreResult(jmAnalyses, i,
                                 AnalyzeCandidateJobMatch(jmBody.list[i], outcome))
    /\ UNCHANGED <<jmPc, jmBody, jmRanked, jmAverage, jmCalls, jmInsightsOut, jmResponse>>

\* a race: the first promise to settle resumes the handler
AnySettled(pending, n) == Cardinality(pending) < n

\* line 274: await Promise.all resumes when no promise is outstanding
AllSettled(pending, n) == pending = {}

\* Promise.all resolves: sort, rank, average, and the insights call is issued
JmJoin ==
    /\ jmPc = "scoring"
    /\ AllSettled(jmPending, Len(jmBody.list))
    /\ \E sorted \in SortOutcomes(jmAnalyses) :
          /\ jmRanked' = AssignRanks(sorted)
          /\ jmAverage' = AverageScore(AssignRanks(sorted))
    /\ jmCalls' = [jmCalls EXCEPT !.insights = @ + 1]
    /\ jmPc' = "insights"
    /\ UNCHANGED <<jmBody, jmPending, jmOutcome, jmAnalyses, jmInsightsOut, jmResponse>>

\* a failed insights call taking the ranking down with it
JobMatchResultLosingRanking(body, ranked, average, insights) ==
    [totalCandidates |-> Len(body.list),
     averageScore |-> IF insights.bestSkillMatches = <<>> THEN Num(0) ELSE average,
     topCandidates |-> IF insights.bestSkillMatches = <<>> THEN <<>>
                       ELSE TopCandidates(ranked),
     leaderboard |-> IF insights.bestSkillMatches = <<>> THEN <<>> ELSE ranked,
     matchInsights |-> insights]

\* the response body built at lines 295-307
JobMatchResult(body, ranked, average, insights) ==
    [totalCandidates |-> Len(body.list),
     averageScore |-> average,
     topCandidates |-> TopCandidates(ranked),
     leaderboard |-> ranked,
     matchInsights |-> insights]

\* the insights call completes and the response is returned
JmInsights(outcome) ==
    /\ jmPc = "insights"
    /\ jmInsightsOut' = outcome
    /\ jmResponse' = SuccessResponse(
            JobMatchResult(jmBody, jmRanked, jmAverage, GenerateJobMatchInsights(outcome)))
    /\ jmPc' = "done"
    /\ UNCHANGED <<jmBody, jmPending, jmOutcome, jmAnalyses, jmRanked, jmAverage, jmCalls>>

JmNext ==
    \/ jmPc = "idle" /\ \E body \in JobMatchBodies : JmReceive(body)
    \/ \E i \in 1..MaxCandidates, outcome \in ScoringOutcomes : JmResolve(i, outcome)
    \/ JmJoin
    \/ \E outcome \in InsightsOutcomes : JmInsights(outcome)


(***************************************************************************)
(* POST /api/resume-parser/upload                                          *)
(***************************************************************************)
\* the ceiling the client-side validator applies: 10 * 1024 * 1024
MaxSize == 10485760

\* path.extname(originalName).toLowerCase() of the files sent; ".txt" and ""
\* (a name without a dot) stand for the extensions outside the accepted set
Extensions == {".pdf", ".doc", ".docx", ".jpg", ".png", ".webp", ".txt", ""}

FileSizes == {2097152, MaxSize + 1}

\* the handler never reads file.size: every extension is sent with a size
\* under the ceiling, and a few of them with a size above it too
UploadedFiles ==
    [ext : Extensions, size : {2097152}]
    \cup [ext : {".pdf", ".docx", ".txt"}, size : FileSizes]

FileLists == UNION {[1..n -> UploadedFiles] : n \in 0..MaxFiles}

\* .docx sent to OCR at once as well
OcrExtensionsWithDocx == {".pdf", ".docx", ".jpg", ".jpeg", ".png", ".gif", ".bmp", ".webp"}

\* line 121: the extensions sent to OCR at once
OcrExtensions == {".pdf", ".jpg", ".jpeg", ".png", ".gif", ".bmp", ".webp"}

\* any other extension sent to OCR instead of being refused
DispatchOcrByDefault(ext) ==
    IF ext \in OcrExtensions THEN "ocr"
    ELSE IF ext = ".docx" THEN "docx"
    ELSE "ocr"

\* lines 117-141: what extractTextFromFile does first for an extension
Dispatch(ext) ==
    IF ext \in OcrExtensions THEN "ocr"
    ELSE IF ext = ".docx" THEN "docx"
    ELSE IF ext = ".doc" THEN "ocr"
    ELSE "unsupported"

\* what response.text() of the OCR call may be
OcrOutcomes == {"throw", "empty", "blank", "text"}

\* what mammoth.extractRawText may do
DocxOutcomes == {"throw", "empty", "blank", "text"}

\* the test without trim()
IsBlankEmptyOnly(text) == text = "empty"

\* !text || text.trim().length === 0, and !extractedText.trim()
IsBlank(text) == text \in {"empty", "blank"}

\* the JSON the structured-parse call answers with, by the type of each field
RawResume(k) ==
    [name |-> IF k = 1 THEN "string" ELSE "absent",
     email |-> IF k = 1 THEN "string" ELSE "absent",
     phone |-> IF k = 1 THEN "string" ELSE "absent",
     summary |-> IF k = 1 THEN "string" ELSE "absent",
     skills |-> IF k = 1 THEN "array" ELSE "absent",
     experience |-> IF k = 1 THEN "array" ELSE "string",
     education |-> IF k = 1 THEN "array" ELSE "object"]

ParseOutcomes ==
    {[kind |-> "throw", data |-> RawResume(1)],
     [kind |-> "unparsable", data |-> RawResume(1)],
     [kind |-> "object", data |-> RawResume(1)],
     [kind |-> "object", data |-> RawResume(2)]}

\* parsedData.name || '': a falsy value (absent, null, '', 0, false) becomes
\* '', any other value is kept as it is, whatever its type
StringOrEmpty(x) ==
    IF x \in {"absent", "null", "emptyString", "zero", "false"} THEN "emptyString" ELSE x

\* Array.isArray(parsedData.skills) ? parsedData.skills : []
ArrayOrEmptyArray(x) == IF x = "array" THEN "array" ELSE "emptyArray"

\* lines 213-223
NormalizeResume(d) ==
    [name |-> StringOrEmpty(d.name),
     email |-> StringOrEmpty(d.email),
     phone |-> StringOrEmpty(d.phone),
     summary |-> StringOrEmpty(d.summary),
     skills |-> ArrayOrEmptyArray(d.skills),
     experience |-> ArrayOrEmptyArray(d.experience),
     education |-> ArrayOrEmptyArray(d.education)]

NoData ==
    [name |-> "", email |-> "", phone |-> "", summary |-> "",
     skills |-> "", experience |-> "", education |-> ""]

ParseFails(outcome) == outcome.kind \in {"throw", "unparsable"}

\* ProcessingResult: lines 286-292, the object as the loop creates it
Processing(i) ==
    [file |-> i, status |-> "processing", hasData |-> FALSE, extractedData |-> NoData,
     error |-> ""]

\* lines 308-310
Completed(i, data) ==
    [file |-> i, status |-> "completed", hasData |-> TRUE, extractedData |-> data,
     error |-> ""]

\* the catch block leaving result.error unset
FailedWithoutError(i, error) ==
    [file |-> i, status |-> "failed", hasData |-> FALSE, extractedData |-> NoData,
     error |-> ""]

\* lines 313-314
Failed(i, error) ==
    [file |-> i, status |-> "failed", hasData |-> FALSE, extractedData |-> NoData,
     error |-> error]

NoProcessingResult ==
    [file |-> 0, status |-> "none", hasData |-> FALSE, extractedData |-> NoData,
     error |-> ""]

\* path.join(uploadsDir, `${fileId}-${file.name}`)
TempFilePath(i) == [endpoint |-> "resume-parser", n |-> i]

NoCalls == [ocr |-> 0, docx |-> 0, parse |-> 0]

NoParseOutcome == [kind |-> "none", data |-> RawResume(1)]

NoAnswers == [save |-> "none", docx |-> "none", ocr |-> "none", parse |-> NoParseOutcome]

NoUploadResponse == [status |-> 0, results |-> <<>>]

\* only completed results reach the array
PushResultIfCompleted(results, result) ==
    IF result.status = "completed" THEN Append(results, result) ELSE results

\* line 318: results.push(result)
PushResult(results, result) == Append(results, result)

UpInit ==
    /\ upPc = "idle"
    /\ upFiles = <<>>
    /\ upIdx = 0
    /\ upResults = <<>>
    /\ upResult = NoProcessingResult
    /\ upAnswers = <<>>
    /\ upCalls = <<>>
    /\ upResponse = NoUploadResponse

\* the form is read: no files is a 400, otherwise the loop starts
UpReceive(files) ==
    /\ upPc = "idle"
    /\ upFiles' = files
    /\ upCalls' = [i \in 1..Len(files) |-> NoCalls]
    /\ upAnswers' = [i \in 1..Len(files) |-> NoAnswers]
    /\ IF Len(files) = 0
         THEN /\ upPc' = "done"
              /\ upIdx' = upIdx
              /\ upResponse' = [status |-> 400, results |-> <<>>]
         ELSE /\ upPc' = "begin"
              /\ upIdx' = 1
              /\ upResponse' = upResponse
    /\ UNCHANGED <<upResults, upResult, uploads>>

\* the loop pushes the result after its last mutation and either goes on to
\* the next file or returns the response
UpPush(result) ==
    /\ upResult' = result
    /\ upResults' = PushResult(upResults, result)
    /\ IF upIdx < Len(upFiles)
         THEN /\ upIdx' = upIdx + 1
              /\ upPc' = "begin"
              /\ upResponse' = upResponse
         ELSE /\ upIdx' = upIdx
              /\ upPc' = "done"
              /\ upResponse' = [status |-> 200, results |-> PushResult(upResults, result)]
    /\ UNCHANGED upFiles

CountCall(kind) == [upCalls EXCEPT ![upIdx][kind] = @ + 1]

Answered(kind, outcome) == [upAnswers EXCEPT ![upIdx][kind] = outcome]

\* lines 283-292: the iteration creates its result object, status processing
UpBegin ==
    /\ upPc = "begin"
    /\ upResult' = Processing(upIdx)
    /\ upPc' = "save"
    /\ UNCHANGED <<upFiles, upIdx, upResults, upAnswers, upCalls, upResponse, uploads>>

\* lines 298-301: the file is written to the uploads directory; a write
\* that throws is caught at line 312
UpSave(written) ==
    /\ upPc = "save"
    /\ upAnswers' = Answered("save", IF written THEN "written" ELSE "throw")
    /\ IF written
         THEN /\ uploads' = uploads \cup {TempFilePath(upIdx)}
              /\ upPc' = "extract"
              /\ UNCHANGED <<upFiles, upIdx, upResults, upResult, upResponse>>
         ELSE /\ UpPush(Failed(upIdx, "ENOENT: no such file or directory"))
              /\ UNCHANGED uploads
    /\ UNCHANGED upCalls

\* processResumeFile's finally deletes the file, then the loop pushes
UpFinishFile(result) ==
    /\ uploads' = uploads \ {TempFilePath(upIdx)}
    /\ UpPush(result)

\* extractTextFromFile dispatches on the extension
UpExtract ==
    /\ upPc = "extract"
    /\ LET how == Dispatch(upFiles[upIdx].ext) IN
         CASE how = "ocr" ->
                /\ upCalls' = CountCall("ocr")
                /\ upPc' = "ocr"
                /\ UNCHANGED <<upFiles, upIdx, upResults, upResult, upResponse, uploads>>
           [] how = "docx" ->
                /\ upCalls' = CountCall("docx")
                /\ upPc' = "docx"
                /\ UNCHANGED <<upFiles, upIdx, upResults, upResult, upResponse, uploads>>
           [] OTHER ->
                /\ UpFinishFile(Failed(upIdx, "Unsupported file format"))
                /\ UNCHANGED upCalls
    /\ UNCHANGED upAnswers

\* the text is there and not blank: parseResumeWithGemini issues its call
UpStartParse ==
    /\ upCalls' = CountCall("parse")
    /\ upPc' = "parse"
    /\ UNCHANGED <<upFiles, upIdx, upResults, upResult, upResponse, uploads>>

\* mammoth returns, or throws and OCR is tried
UpDocx(outcome) ==
    /\ upPc = "docx"
    /\ upAnswers' = Answered("docx", outcome)
    /\ IF outcome = "throw"
         THEN /\ upCalls' = CountCall("ocr")
              /\ upPc' = "ocr"
              /\ UNCHANGED <<upFiles, upIdx, upResults, upResult, upResponse, uploads>>
       ELSE IF IsBlank(outcome)
         THEN /\ UpFinishFile(Failed(upIdx, "No text could be extracted from the file"))
              /\ UNCHANGED upCalls
       ELSE UpStartParse

\* the OCR call completes
UpOcr(outcome) ==
    /\ upPc = "ocr"
    /\ upAnswers' = Answered("ocr", outcome)
    /\ IF outcome = "throw"
         THEN /\ UpFinishFile(Failed(upIdx, "Failed to extract text using OCR: call failed"))
              /\ UNCHANGED upCalls
       ELSE IF IsBlank(outcome)
         THEN /\ UpFinishFile(Failed(upIdx,
                    "Failed to extract text using OCR: No text could be extracted from the file using OCR"))
              /\ UNCHANGED upCalls
       ELSE UpStartParse

\* the structured-parse call completes
UpParse(outcome) ==
    /\ upPc = "parse"
    /\ upAnswers' = Answered("parse", outcome)
    /\ IF ParseFails(outcome)
         THEN UpFinishFile(Failed(upIdx, "Failed to parse AI response into structured data"))
         ELSE UpFinishFile(Completed(upIdx, NormalizeResume(outcome.data)))
    /\ UNCHANGED upCalls

UpNext ==
    \/ upPc = "idle" /\ \E files \in FileLists : UpReceive(files)
    \/ UpBegin
    \/ \E written \in BOOLEAN : UpSave(written)
    \/ UpExtract
    \/ \E outcome \in DocxOutcomes : UpDocx(outcome)
    \/ \E outcome \in OcrOutcomes : UpOcr(outcome)
    \/ \E outcome \in ParseOutcomes : UpParse(outcome)

(***************************************************************************)
(* POST /api/resume/upload (one file per request)                          *)
(***************************************************************************)
\* file.type as the browser declares it
MimeTypes == {"application/pdf", "application/msword", "image/png", ""}

LegacyFiles == [type : MimeTypes, size : FileSizes \cup {MaxSize}]

\* !file.type.includes('pdf') && !file.type.includes('doc')
InvalidType(type) == type \notin {"application/pdf", "application/msword"}

\* file.size > 10 * 1024 * 1024
TooLarge(size) == size > 10 * 1024 * 1024

\* join(uploadsDir, `${timestamp}_${name}`)
StoredFilePath(n) == [endpoint |-> "resume", n |-> n]

NoFile == [type |-> "", size |-> 0]

NoLegacyResponse == [status |-> 0, success |-> FALSE, extractedText |-> ""]

LgInit ==
    /\ lgPc = "idle"
    /\ lgFile = NoFile
    /\ lgServed = 0
    /\ lgCalls = 0
    /\ lgAnswer = "none"
    /\ lgResponse = NoLegacyResponse

\* the checks, then the file is written and the extraction call issued
LgReceive(file) ==
    /\ lgPc = "idle"
    /\ lgServed < MaxUploads
    /\ lgFile' = file
    /\ lgAnswer' = "none"
    /\ IF InvalidType(file.type) \/ TooLarge(file.size)
         THEN /\ lgResponse' = [status |-> 400, success |-> FALSE, extractedText |-> ""]
              /\ lgServed' = lgServed + 1
              /\ UNCHANGED <<lgPc, lgCalls, uploads>>
         ELSE /\ uploads' = uploads \cup {StoredFilePath(lgServed + 1)}
              /\ lgCalls' = lgCalls + 1
              /\ lgPc' = "ocr"
              /\ lgResponse' = NoLegacyResponse
              /\ UNCHANGED lgServed

\* lines 74-89: the text, or the error sentence in its place, in a success
LgComplete(outcome) ==
    /\ lgPc = "ocr"
    /\ lgAnswer' = outcome
    /\ lgResponse' = [status |-> 200, success |-> TRUE,
                      extractedText |-> IF outcome = "throw"
                                          THEN "Error: Could not extract text from the document. Please try again or upload a different file."
                                          ELSE outcome]
    /\ lgServed' = lgServed + 1
    /\ lgPc' = "idle"
    /\ UNCHANGED <<lgFile, lgCalls, uploads>>

LgNext ==
    \/ \E file \in LegacyFiles : LgReceive(file)
    \/ \E outcome \in OcrOutcomes : LgComplete(outcome)

(***************************************************************************)
(* validateResumeFile (lib/resume-parser.ts)                               *)
(***************************************************************************)
\* A file name is a sequence of UTF-16 code units. "I_DOT" is U+0130 (capital
\* I with dot above), "DOT_ABOVE" is U+0307 (combining dot above).
NameChars == {"p", "d", "f", "P", ".", "I_DOT"}

FileNames == UNION {[1..n -> NameChars] : n \in 0..MaxNameLen}

\* String.prototype.toLowerCase on one code unit: U+0130 becomes the two
\* code units U+0069 U+0307
LowerCase(ch) ==
    CASE ch = "P" -> <<"p">>
      [] ch = "I_DOT" -> <<"i", "DOT_ABOVE">>
      [] OTHER -> <<ch>>

RECURSIVE ToLowerCase(_)
ToLowerCase(str) ==
    IF str = <<>> THEN <<>> ELSE LowerCase(Head(str)) \o ToLowerCase(Tail(str))

\* String.prototype.lastIndexOf: the 0-based index of the last ch, or -1
LastIndexOf(str, ch) ==
    LET at == {i \in 1..Len(str) : str[i] = ch} IN
    IF at = {} THEN -1 ELSE (CHOOSE i \in at : \A j \in at : j <= i) - 1

\* String.prototype.substring(start): start is clamped to 0..length
Substring(str, start) ==
    LET from == IF start < 0 THEN 0 ELSE IF start > Len(str) THEN Len(str) ELSE start
    IN  SubSeq(str, from + 1, Len(str))

\* line 217: file.name.toLowerCase().substring(file.name.lastIndexOf('.'))
FileExtension(name) == Substring(ToLowerCase(name), LastIndexOf(name, "."))

\* line 209
AllowedExtensions ==
    {<<".", "p", "d", "f">>, <<".", "d", "o", "c">>, <<".", "d", "o", "c", "x">>,
     <<".", "j", "p", "g">>, <<".", "j", "p", "e", "g">>, <<".", "p", "n", "g">>,
     <<".", "g", "i", "f">>, <<".", "b", "m", "p">>, <<".", "w", "e", "b", "p">>}

\* lines 197-207
AllowedTypes ==
    {"application/pdf",
     "application/vnd.openxmlformats-officedocument.wordprocessingml.document",
     "application/msword", "image/jpeg", "image/jpg", "image/png", "image/gif",
     "image/bmp", "image/webp"}

\* the size check rejecting the ceiling itself
OverMaxSizeInclusive(size) == size >= MaxSize

\* line 212: file.size > maxSize
OverMaxSize(size) == size > MaxSize

ValidationResult(valid, error) == [valid |-> valid, error |-> error]

\* the MIME type deciding before the extension is looked at
ValidateResumeFileTypeFirst(file) ==
    IF OverMaxSize(file.size)
      THEN ValidationResult(FALSE, "File size must be less than 10MB")
    ELSE IF file.type \in AllowedTypes THEN ValidationResult(TRUE, "")
    ELSE IF FileExtension(file.name) \notin AllowedExtensions
      THEN ValidationResult(FALSE,
             "Only PDF, DOC, DOCX, and image files (JPG, PNG, GIF, BMP, WebP) are supported")
    ELSE IF file.type # ""
      THEN ValidationResult(FALSE, "Invalid file type")
    ELSE ValidationResult(TRUE, "")

\* lines 195-228
ValidateResumeFile(file) ==
    IF OverMaxSize(file.size)
      THEN ValidationResult(FALSE, "File size must be less than 10MB")
    ELSE IF FileExtension(file.name) \notin AllowedExtensions
      THEN ValidationResult(FALSE,
             "Only PDF, DOC, DOCX, and image files (JPG, PNG, GIF, BMP, WebP) are supported")
    ELSE IF file.type \notin AllowedTypes /\ file.type # ""
      THEN ValidationResult(FALSE, "Invalid file type")
    ELSE ValidationResult(TRUE, "")

\* file.type and file.size of the files given to the validator
ValidatedTypes == {"", "application/pdf", "text/plain"}

ValidatedSizes == {2097152, MaxSize, MaxSize + 1}

ValidatedFiles == [name : FileNames, size : ValidatedSizes, type : ValidatedTypes]

NoValidation == ValidationResult(FALSE, "not validated")

VlIdle == vlFile = [name |-> <<>>, size |-> 0, type |-> ""] /\ vlResult = NoValidation

VlInit == vlFile \in ValidatedFiles /\ vlResult = NoValidation

VlValidate ==
    /\ vlResult = NoValidation
    /\ vlResult' = ValidateResumeFile(vlFile)
    /\ UNCHANGED vlFile

(***************************************************************************)
(* parseResumeWithGemini: response cleanup, JSON.parse, normalisation      *)
(***************************************************************************)
\* The answer text as a sequence of pieces: "FENCE" for a run of three
\* backticks, the word json, a line feed, a blank, the two braces, and "k" for the text of
\* one "key": value member.
TextPieces == {"FENCE", "json", "LF", " ", "{", "}", "k"}

Texts == UNION {[1..n -> TextPieces] : n \in 0..MaxTextLen}

\* text.replace of a fence followed by json and an optional line feed, by
\* nothing: left to right, non-overlapping
RECURSIVE StripJsonFences(_)
StripJsonFences(t) ==
    IF t = <<>> THEN <<>>
    ELSE IF Len(t) >= 2 /\ t[1] = "FENCE" /\ t[2] = "json"
      THEN IF Len(t) >= 3 /\ t[3] = "LF"
             THEN StripJsonFences(SubSeq(t, 4, Len(t)))
             ELSE StripJsonFences(SubSeq(t, 3, Len(t)))
    ELSE <<Head(t)>> \o StripJsonFences(Tail(t))

\* .replace of a fence and an optional line feed, by nothing
RECURSIVE StripFences(_)
StripFences(t) ==
    IF t = <<>> THEN <<>>
    ELSE IF t[1] = "FENCE"
      THEN IF Len(t) >= 2 /\ t[2] = "LF"
             THEN StripFences(SubSeq(t, 3, Len(t)))
             ELSE StripFences(Tail(t))
    ELSE <<Head(t)>> \o StripFences(Tail(t))

WhiteSpace == {" ", "LF"}

\* String.prototype.trim
RECURSIVE Trim(_)
Trim(t) ==
    IF t = <<>> THEN <<>>
    ELSE IF Head(t) \in WhiteSpace THEN Trim(Tail(t))
    ELSE IF t[Len(t)] \in WhiteSpace THEN Trim(SubSeq(t, 1, Len(t) - 1))
    ELSE t

\* line 200
CleanText(t) == Trim(StripFences(StripJsonFences(t)))

\* String.prototype.indexOf: the 0-based index of the first ch, or -1
IndexOf(str, ch) ==
    LET at == {i \in 1..Len(str) : str[i] = ch} IN
    IF at = {} THEN -1 ELSE (CHOOSE i \in at : \A j \in at : i <= j) - 1

\* slicing at the first closing brace instead of the last
JsonSpanToFirstClose(clean) ==
    LET jsonStart == IndexOf(clean, "{")
        jsonEnd == IndexOf(clean, "}")
    IN  IF jsonStart # -1 /\ jsonEnd # -1 /\ jsonEnd > jsonStart
          THEN SubSeq(clean, jsonStart + 1, jsonEnd + 1)
          ELSE clean

\* lines 203-208: jsonText.substring(jsonStart, jsonEnd + 1) when both braces
\* are there and the last '}' is after the first '{'
JsonSpan(clean) ==
    LET jsonStart == IndexOf(clean, "{")
        jsonEnd == LastIndexOf(clean, "}")
    IN  IF jsonStart # -1 /\ jsonEnd # -1 /\ jsonEnd > jsonStart
          THEN SubSeq(clean, jsonStart + 1, jsonEnd + 1)
          ELSE clean

\* the nesting depth after each piece of a text, blanks aside
RECURSIVE Depth(_, _)
Depth(t, n) ==
    IF n = 0 THEN 0
    ELSE Depth(t, n - 1) + (IF t[n] = "{" THEN 1 ELSE IF t[n] = "}" THEN -1 ELSE 0)

\* JSON.parse accepts the text as an object: it opens with '{', closes with
\* the matching '}' at its end, and holds members, nested objects and blanks
IsJsonObject(t) ==
    /\ Len(t) >= 2
    /\ t[1] = "{"
    /\ \A n \in 1..Len(t) : t[n] \in {"{", "}", "k", " ", "LF"}
    /\ \A n \in 1..(Len(t) - 1) : Depth(t, n) >= 1
    /\ Depth(t, Len(t)) = 0

\* the types of the fields of the parsed object, as the model sent them
StringKinds == {"absent", "null", "emptyString", "string", "number", "zero", "object"}

ArrayKinds == {"absent", "null", "array", "string", "object"}

RawResumes ==
    [name : StringKinds, email : {"string", "absent"}, phone : StringKinds,
     summary : {"string", "number"}, skills : ArrayKinds,
     experience : {"array", "string"}, education : {"array", "absent"}]

\* what generateContent answers: it throws, or a text; fields are the
\* members of the object when the parsed span is one
ParseAnswers ==
    {[kind |-> "throw", text |-> <<>>, fields |-> RawResume(1)]}
    \cup [kind : {"text"}, text : Texts, fields : {RawResume(1)}]
    \cup [kind : {"text"}, text : {<<"FENCE", "json", "LF", "{", "k", "}", "LF", "FENCE">>},
          fields : RawResumes]

NoParseAnswer == [kind |-> "none", text |-> <<>>, fields |-> RawResume(1)]

ParseError == [ok |-> FALSE, error |-> "Failed to parse AI response into structured data",
               data |-> NoData]

ParseSuccess(data) == [ok |-> TRUE, error |-> "", data |-> data]

NoParseResult == [ok |-> FALSE, error |-> "not called", data |-> NoData]

\* lines 194-228
ParseResumeWithGemini(answer) ==
    IF answer.kind = "throw" THEN ParseError
    ELSE IF ~IsJsonObject(JsonSpan(CleanText(answer.text))) THEN ParseError
    ELSE ParseSuccess(NormalizeResume(answer.fields))

PsIdle == psAnswer = NoParseAnswer /\ psParsed = <<>> /\ psResult = NoParseResult

PsInit == psAnswer \in ParseAnswers /\ psParsed = <<>> /\ psResult = NoParseResult

\* the one call, the one JSON.parse of the cleaned span, and the return
PsParse ==
    /\ psResult = NoParseResult
    /\ psParsed' = IF psAnswer.kind = "throw" THEN <<>>
                   ELSE <<JsonSpan(CleanText(psAnswer.text))>>
    /\ psResult' = ParseResumeWithGemini(psAnswer)
    /\ UNCHANGED psAnswer

(***************************************************************************)
(* Batch analysis: analyzeBatchResumes and its POST handler.               *)
(*                                                                         *)
(* A count dictionary ({} filled with dict[key] = (dict[key] || 0) + 1) is *)
(* the sequence of its own properties in creation order; Object.entries    *)
(* lists the array-index keys first, in ascending numeric order, and the   *)
(* other keys after them in creation order. A key that {} inherits from    *)
(* Object.prototype reads as a function before it is first written.        *)
(***************************************************************************)
\* keys that are canonical array indexes, with their numeric value
IndexKeys == {"42", "365"}

IndexValue(k) == IF k = "42" THEN 42 ELSE 365

\* keys every {} inherits from Object.prototype
InheritedKeys == {"constructor"}

JFunction == [t |-> "function", v |-> 0]

\* dict[key], before the key is an own property
Inherited(key) == IF key \in InheritedKeys THEN JFunction ELSE JUndefined

\* (x || 0) + 1: a number is incremented, anything else truthy is
\* concatenated with "1" into a string
PlusOne(x) ==
    IF Falsy(x) THEN JNumber(1)
    ELSE IF x.t = "number" THEN JNumber(x.v + 1)
    ELSE JText

HasKey(dict, key) == \E i \in 1..Len(dict) : dict[i].key = key

\* dict[key] = (dict[key] || 0) + 1
AddCount(dict, key) ==
    IF HasKey(dict, key)
    THEN [i \in 1..Len(dict) |->
             IF dict[i].key = key
             THEN [key |-> key, count |-> PlusOne(dict[i].count)]
             ELSE dict[i]]
    ELSE Append(dict, [key |-> key, count |-> PlusOne(Inherited(key))])

\* the forEach loops that fill one dictionary
RECURSIVE CountKeys(_)
CountKeys(keys) ==
    IF keys = <<>> THEN <<>>
    ELSE AddCount(CountKeys(SubSeq(keys, 1, Len(keys) - 1)), keys[Len(keys)])

IsIndexEntry(e) == e.key \in IndexKeys

IsNamedEntry(e) == e.key \notin IndexKeys

RECURSIVE InsertByIndex(_, _)
InsertByIndex(sorted, e) ==
    IF sorted = <<>> THEN <<e>>
    ELSE IF IndexValue(e.key) < IndexValue(Head(sorted).key) THEN <<e>> \o sorted
    ELSE <<Head(sorted)>> \o InsertByIndex(Tail(sorted), e)

RECURSIVE AscendingIndex(_)
AscendingIndex(entries) ==
    IF entries = <<>> THEN <<>>
    ELSE InsertByIndex(AscendingIndex(Tail(entries)), Head(entries))

\* Object.entries(dict)
ObjectEntries(dict) ==
    AscendingIndex(SelectSeq(dict, IsIndexEntry)) \o SelectSeq(dict, IsNamedEntry)

\* Math.round((count / totalCandidates) * 100)
Percentage(count, total) ==
    IF count.t = "number" THEN Num((200 * count.v + total) \div (2 * total)) ELSE NaN

\* .map(([skill, count]) => ({ skill, count, percentage }))
SkillEntries(dict, total) ==
    LET entries == ObjectEntries(dict)
    IN  [i \in 1..Len(entries) |->
            [skill |-> entries[i].key, count |-> entries[i].count,
             percentage |-> Percentage(entries[i].count, total)]]

\* .map(([company, count]) => ({ company, count }))
CompanyEntries(dict) ==
    LET entries == ObjectEntries(dict)
    IN  [i \in 1..Len(entries) |-> [company |-> entries[i].key, count |-> entries[i].count]]

\* .map(([title, count]) => ({ title, count }))
TitleEntries(dict) ==
    LET entries == ObjectEntries(dict)
    IN  [i \in 1..Len(entries) |-> [title |-> entries[i].key, count |-> entries[i].count]]

\* .map(([university, count]) => ({ university, count }))
UniversityEntries(dict) ==
    LET entries == ObjectEntries(dict)
    IN  [i \in 1..Len(entries) |-> [university |-> entries[i].key, count |-> entries[i].count]]

\* (a, b) => b.count - a.count; a count that is no number makes it NaN,
\* which sort reads as 0
CompareCounts(a, b) ==
    IF a.count.t # "number" \/ b.count.t # "number" THEN 0
    ELSE IF b.count.v < a.count.v THEN -1
    ELSE IF b.count.v > a.count.v THEN 1
    ELSE 0

RECURSIVE InsertByCount(_, _)
InsertByCount(sorted, x) ==
    IF sorted = <<>> THEN <<x>>
    ELSE IF CompareCounts(x, Head(sorted)) < 0 THEN <<x>> \o sorted
    ELSE <<Head(sorted)>> \o InsertByCount(Tail(sorted), x)

RECURSIVE SortByCount(_)
SortByCount(seq) ==
    IF seq = <<>> THEN <<>>
    ELSE InsertByCount(SortByCount(SubSeq(seq, 1, Len(seq) - 1)), seq[Len(seq)])

ConsistentCountComparator(seq) ==
    \A i, j, k \in 1..Len(seq) :
        (CompareCounts(seq[i], seq[j]) = 0 /\ CompareCounts(seq[j], seq[k]) = 0)
            => CompareCounts(seq[i], seq[k]) = 0

\* the orders .sort((a, b) => b.count - a.count) may leave the array in
CountSortOutcomes(seq) ==
    IF ConsistentCountComparator(seq) THEN {SortByCount(seq)} ELSE Reorderings(seq)

TopSkillCount == 10

TopEntryCount == 5

\* .slice(0, n)
Slice(seq, n) == SubSeq(seq, 1, IF Len(seq) < n THEN Len(seq) ELSE n)

\* expCount <= 2 only for expCount < 2
SeniorityOfStrict(expCount) ==
    IF expCount < 2 THEN "Entry" ELSE IF expCount < 4 THEN "Mid" ELSE "Senior"

\* lines 96-98
SeniorityOf(expCount) ==
    IF expCount <= 2 THEN "Entry" ELSE IF expCount <= 4 THEN "Mid" ELSE "Senior"

SeniorityLevels(pool) ==
    [level \in {"Entry", "Mid", "Senior"} |->
        Cardinality({i \in 1..Len(pool) : SeniorityOf(Len(pool[i].experience)) = level})]

RECURSIVE Concat(_)
Concat(seqs) == IF seqs = <<>> THEN <<>> ELSE Head(seqs) \o Concat(Tail(seqs))

\* the keys in the order the nested forEach loops visit them
SkillKeys(pool) == Concat([i \in 1..Len(pool) |-> pool[i].skills])

CompanyKeys(pool) ==
    Concat([i \in 1..Len(pool) |->
               [j \in 1..Len(pool[i].experience) |-> pool[i].experience[j].company]])

TitleKeys(pool) ==
    Concat([i \in 1..Len(pool) |->
               [j \in 1..Len(pool[i].experience) |-> pool[i].experience[j].job_title]])

UniversityKeys(pool) ==
    Concat([i \in 1..Len(pool) |->
               [j \in 1..Len(pool[i].education) |-> pool[i].education[j].institution]])

DegreeKeys(pool) ==
    Concat([i \in 1..Len(pool) |->
               [j \in 1..Len(pool[i].education) |-> pool[i].education[j].degree]])

FieldKeys(pool) ==
    Concat([i \in 1..Len(pool) |->
               [j \in 1..Len(pool[i].education) |-> pool[i].education[j].field_of_study]])

Range(seq) == {seq[i] : i \in 1..Len(seq)}

\* Math.round(total / n) of two non-negative integers
RoundedRatio(total, n) == (2 * total + n) \div (2 * n)

\* the statistics computed before the insights call, given the order each
\* sort left its array in
Statistics(pool, skills, companies, titles, universities) ==
    [summary |->
        [totalCandidates |-> Len(pool),
         averageSkillsPerCandidate |-> RoundedRatio(Len(SkillKeys(pool)), Len(pool)),
         averageExperienceYears |-> RoundedRatio(Len(CompanyKeys(pool)), Len(pool)),
         uniqueCompanies |-> Cardinality(Range(CompanyKeys(pool))),
         uniqueSkills |-> Cardinality(Range(SkillKeys(pool)))],
     topSkills |-> Slice(skills, TopSkillCount),
     seniorityDistribution |-> SeniorityLevels(pool),
     topCompanies |-> Slice(companies, TopEntryCount),
     commonJobTitles |-> Slice(titles, TopEntryCount),
     topUniversities |-> Slice(universities, TopEntryCount),
     degreeDistribution |-> CountKeys(DegreeKeys(pool)),
     fieldDistribution |-> CountKeys(FieldKeys(pool))]

NoStatistics ==
    [summary |-> [totalCandidates |-> 0, averageSkillsPerCandidate |-> 0,
                  averageExperienceYears |-> 0, uniqueCompanies |-> 0, uniqueSkills |-> 0],
     topSkills |-> <<>>,
     seniorityDistribution |-> [level \in {"Entry", "Mid", "Senior"} |-> 0],
     topCompanies |-> <<>>, commonJobTitles |-> <<>>, topUniversities |-> <<>>,
     degreeDistribution |-> <<>>, fieldDistribution |-> <<>>]

\* what the insights call answers: a field of the JSON object is present
\* with its value, or absent
RawMarketInsights(present) ==
    [recommendedSalaryRange |-> [present |-> present, v |-> "$90k-$120k"],
     competitiveSkills |-> [present |-> present, v |-> <<"Python">>],
     improvementAreas |-> [present |-> present, v |-> <<"Cloud">>],
     emergingSkills |-> [present |-> TRUE, v |-> <<"Rust">>],
     skillGaps |-> [present |-> present, v |-> <<"Kubernetes">>]]

\* the call throws, answers text that is no JSON, answers the JSON null, or
\* answers a JSON object
BatchInsightsOutcomes ==
    {[kind |-> "throw", insights |-> RawMarketInsights(TRUE)],
     [kind |-> "unparsable", insights |-> RawMarketInsights(TRUE)],
     [kind |-> "null", insights |-> RawMarketInsights(TRUE)],
     [kind |-> "object", insights |-> RawMarketInsights(TRUE)],
     [kind |-> "object", insights |-> RawMarketInsights(FALSE)]}

NoBatchInsightsOutcome == [kind |-> "none", insights |-> RawMarketInsights(TRUE)]

\* control reaches the catch block: generateContent or JSON.parse threw, or
\* a property of null was read
BatchInsightsFails(outcome) == outcome.kind \in {"throw", "unparsable", "null"}

\* x || fallback
OrElse(x, fallback) == IF x.present THEN x.v ELSE fallback

\* lines 177-205
AnalysisOnSuccess(stats, insights) ==
    [summary |-> stats.summary,
     skillsAnalysis |->
        [topSkills |-> stats.topSkills,
         emergingSkills |-> OrElse(insights.emergingSkills, <<>>),
         skillGaps |-> OrElse(insights.skillGaps, <<>>)],
     experienceAnalysis |->
        [seniorityDistribution |-> stats.seniorityDistribution,
         topCompanies |-> stats.topCompanies,
         commonJobTitles |-> stats.commonJobTitles],
     educationAnalysis |->
        [topUniversities |-> stats.topUniversities,
         degreeDistribution |-> stats.degreeDistribution,
         fieldDistribution |-> stats.fieldDistribution],
     marketInsights |->
        [recommendedSalaryRange |->
            OrElse(insights.recommendedSalaryRange, "Unable to determine"),
         competitiveSkills |-> OrElse(insights.competitiveSkills, <<>>),
         improvementAreas |-> OrElse(insights.improvementAreas, <<>>)]]

\* a fallback that keeps the insight defaults and drops the ranked lists
AnalysisOnFailureWithoutLists(stats) ==
    [summary |-> stats.summary,
     skillsAnalysis |-> [topSkills |-> <<>>, emergingSkills |-> <<>>, skillGaps |-> <<>>],
     experienceAnalysis |->
        [seniorityDistribution |-> stats.seniorityDistribution,
         topCompanies |-> <<>>,
         commonJobTitles |-> <<>>],
     educationAnalysis |->
        [topUniversities |-> <<>>,
         degreeDistribution |-> stats.degreeDistribution,
         fieldDistribution |-> stats.fieldDistribution],
     marketInsights |->
        [recommendedSalaryRange |-> "Analysis unavailable",
         competitiveSkills |-> <<>>,
         improvementAreas |-> <<>>]]

\* lines 210-238
AnalysisOnFailure(stats) ==
    [summary |-> stats.summary,
     skillsAnalysis |->
        [topSkills |-> stats.topSkills, emergingSkills |-> <<>>, skillGaps |-> <<>>],
     experienceAnalysis |->
        [seniorityDistribution |-> stats.seniorityDistribution,
         topCompanies |-> stats.topCompanies,
         commonJobTitles |-> stats.commonJobTitles],
     educationAnalysis |->
        [topUniversities |-> stats.topUniversities,
         degreeDistribution |-> stats.degreeDistribution,
         fieldDistribution |-> stats.fieldDistribution],
     marketInsights |->
        [recommendedSalaryRange |-> "Analysis unavailable",
         competitiveSkills |-> <<>>,
         improvementAreas |-> <<>>]]

BatchAnalysisResult(stats, outcome) ==
    IF BatchInsightsFails(outcome) THEN AnalysisOnFailure(stats)
    ELSE AnalysisOnSuccess(stats, outcome.insights)

\* the resumes of the model
Exp(company, title) == [company |-> company, job_title |-> title]

Edu(institution, degree, field) ==
    [institution |-> institution, degree |-> degree, field_of_study |-> field]

Resume(skills, experience, education) ==
    [skills |-> skills, experience |-> experience, education |-> education]

\* eleven distinct skills, six employers and titles, six institutions
WideResume ==
    Resume(<<"Python", "Go", "SQL", "Java", "Rust", "C", "Ruby", "Scala", "Perl",
             "Swift", "Kotlin", "Python">>,
           <<Exp("Acme", "Engineer"), Exp("Globex", "Analyst"), Exp("Initech", "Manager"),
             Exp("Umbrella", "Designer"), Exp("Hooli", "Tester"), Exp("Stark", "Architect")>>,
           <<Edu("MIT", "BSc", "CS"), Edu("Stanford", "MSc", "CS"), Edu("ETH", "PhD", "Math"),
             Edu("Oxford", "BSc", "Physics"), Edu("Yale", "MBA", "Business"),
             Edu("IIT", "BTech", "EE")>>)

\* resumes with few distinct keys
NarrowResumes ==
    {Resume(<<"Python", "SQL">>,
            <<Exp("Acme", "Engineer"), Exp("Globex", "Engineer"), Exp("Acme", "Manager")>>,
            <<Edu("MIT", "BSc", "CS")>>),
     Resume(<<"Python", "Python">>, <<>>, <<>>),
     Resume(<<"Go", "Python">>,
            <<Exp("Globex", "Analyst"), Exp("Acme", "Analyst"), Exp("Globex", "Engineer"),
              Exp("Initech", "Manager")>>,
            <<Edu("42", "MSc", "CS")>>),
     Resume(<<"SQL">>,
            <<Exp("Initech", "Engineer"), Exp("Initech", "Analyst"), Exp("Acme", "Engineer"),
              Exp("Globex", "Manager"), Exp("Initech", "Manager")>>,
            <<Edu("MIT", "BSc", "Math"), Edu("42", "MSc", "CS")>>)}

\* a resume that lists a skill named like a property of Object.prototype
InheritedKeyResume ==
    Resume(<<"constructor", "Go">>,
           <<Exp("Acme", "Engineer"), Exp("Acme", "Manager")>>,
           <<Edu("Stanford", "BSc", "CS")>>)

PoolsOver(resumes) ==
    UNION {[1..n -> resumes] : n \in 0..MaxPool}

Pools == PoolsOver(NarrowResumes \cup {WideResume})
            \cup PoolsOver(NarrowResumes \cup {InheritedKeyResume})

\* the request bodies: resumesData absent, not an array, or an array
BatchBodies ==
    {[resumesData |-> "absent", list |-> <<>>],
     [resumesData |-> "notArray", list |-> <<>>]}
        \cup {[resumesData |-> "array", list |-> p] : p \in Pools}

NoBatchBody == [resumesData |-> "none", list |-> <<>>]

NoAnalysisResult == AnalysisOnFailure(NoStatistics)

NoBatchResponse == [status |-> 0, success |-> FALSE, error |-> "", analysis |-> NoAnalysisResult]

BaInit ==
    /\ baPc = "idle"
    /\ baBody = NoBatchBody
    /\ baStats = NoStatistics
    /\ baInsightsOut = NoBatchInsightsOutcome
    /\ baCalls = 0
    /\ baResponse = NoBatchResponse

\* POST, lines 244-252: the body is read and checked
BaReceive ==
    /\ baPc = "idle"
    /\ \E body \in BatchBodies :
          /\ baBody' = body
          /\ IF body.resumesData # "array" \/ Len(body.list) = 0
             THEN /\ baPc' = "done"
                  /\ baResponse' = [NoBatchResponse EXCEPT !.status = 400,
                                       !.error = "No resume data provided"]
             ELSE /\ baPc' = "analyzing"
                  /\ UNCHANGED baResponse
    /\ UNCHANGED <<baStats, baInsightsOut, baCalls>>

\* lines 62-162: the statistics are computed and the insights call is issued
BaAnalyze ==
    /\ baPc = "analyzing"
    /\ LET pool == baBody.list
       IN  \E skills \in CountSortOutcomes(SkillEntries(CountKeys(SkillKeys(pool)), Len(pool))),
              companies \in CountSortOutcomes(CompanyEntries(CountKeys(CompanyKeys(pool)))),
              titles \in CountSortOutcomes(TitleEntries(CountKeys(TitleKeys(pool)))),
              universities \in CountSortOutcomes(UniversityEntries(CountKeys(UniversityKeys(pool)))) :
                baStats' = Statistics(pool, skills, companies, titles, universities)
    /\ baCalls' = baCalls + 1
    /\ baPc' = "insights"
    /\ UNCHANGED <<baBody, baInsightsOut, baResponse>>

\* lines 162-239 and 254-257: the call settles and the analysis is returned
BaInsights ==
    /\ baPc = "insights"
    /\ \E outcome \in BatchInsightsOutcomes :
          /\ baInsightsOut' = outcome
          /\ baResponse' = [status |-> 200, success |-> TRUE, error |-> "",
                            analysis |-> BatchAnalysisResult(baStats, outcome)]
    /\ baPc' = "done"
    /\ UNCHANGED <<baBody, baStats, baCalls>>

BaNext == BaReceive \/ BaAnalyze \/ BaInsights

(***************************************************************************)
(* The resume-parser page: handleFiles and the controls that invoke it.    *)
(*                                                                         *)
(* An id is a record: temp tells whether the string starts with 'temp-',   *)
(* upload and index tell which invocation and which file it was made for.  *)
(* The drop zone and the Browse button are disabled while the rendered     *)
(* isUploading is true; a file picker that is already open still delivers  *)
(* its change event when the user confirms.                                *)
(***************************************************************************)
\* files of one invocation that pass, and that fail, validateResumeFile
PickedFiles ==
    {[valid |-> v, invalid |-> n] : v \in 0..MaxPicked, n \in 0..1}

\* lines 94-100
InitialResults(u, n) ==
    [i \in 1..n |->
        [id |-> [temp |-> TRUE, upload |-> u, index |-> i], status |-> "processing"]]

\* response.results of a successful upload: one result per file, each
\* completed or failed, with an id the server made
ResponseResults(u, statuses) ==
    [i \in 1..Len(statuses) |->
        [id |-> [temp |-> FALSE, upload |-> u, index |-> i], status |-> statuses[i]]]

\* !result.id.startsWith('temp-')
IsRealResult(result) == ~result.id.temp

\* prev.filter(result => !result.id.startsWith('temp-'))
RemoveTemporary(results) == SelectSeq(results, IsRealResult)

PgInit ==
    /\ pgResults = <<>>
    /\ pgIsUploading = FALSE
    /\ pgInFlight = {}
    /\ pgPickerOpen = FALSE
    /\ pgInvocations = 0
    /\ pgDelivered = {}

\* handleFiles up to its await, lines 63-106
HandleFiles(files) ==
    /\ pgInvocations < MaxInvocations
    /\ pgInvocations' = pgInvocations + 1
    /\ IF files.valid = 0
       THEN UNCHANGED <<pgResults, pgIsUploading, pgInFlight>>
       ELSE /\ pgIsUploading' = TRUE
            /\ pgResults' = pgResults \o InitialResults(pgInvocations + 1, files.valid)
            /\ pgInFlight' = pgInFlight \cup
                  {[upload |-> pgInvocations + 1, files |-> files.valid]}
    /\ UNCHANGED pgDelivered

\* the Browse button (disabled while isUploading) opens the file picker
PgBrowse ==
    /\ ~pgIsUploading
    /\ ~pgPickerOpen
    /\ pgPickerOpen' = TRUE
    /\ UNCHANGED <<pgResults, pgIsUploading, pgInFlight, pgInvocations, pgDelivered>>

\* handleFileInput: the picker is confirmed and the input fires change
PgFileInput ==
    /\ pgPickerOpen
    /\ pgPickerOpen' = FALSE
    /\ \E files \in PickedFiles : files.valid + files.invalid >= 1 /\ HandleFiles(files)

\* handleDrop on the drop zone (pointer-events-none while isUploading)
PgDrop ==
    /\ ~pgIsUploading
    /\ \E files \in PickedFiles : HandleFiles(files)
    /\ UNCHANGED pgPickerOpen

\* lines 108-130 and 144-150: uploadResumes resolved with success: true
PgSuccess ==
    \E u \in pgInFlight :
        \E statuses \in [1..u.files -> {"completed", "failed"}] :
            LET results == ResponseResults(u.upload, statuses)
            IN  /\ pgResults' = RemoveTemporary(pgResults) \o results
                /\ pgDelivered' = pgDelivered \cup {results[i] : i \in 1..Len(results)}
                /\ pgInFlight' = pgInFlight \ {u}
                /\ pgIsUploading' = FALSE
                /\ UNCHANGED <<pgPickerOpen, pgInvocations>>

\* lines 131-150: uploadResumes threw, or resolved without success
PgFailure ==
    \E u \in pgInFlight :
        /\ pgResults' = RemoveTemporary(pgResults)
        /\ pgInFlight' = pgInFlight \ {u}
        /\ pgIsUploading' = FALSE
        /\ UNCHANGED <<pgPickerOpen, pgInvocations, pgDelivered>>

PgNext == PgBrowse \/ PgFileInput \/ PgDrop \/ PgSuccess \/ PgFailure

(***************************************************************************)
(* Specifications                                                          *)
(***************************************************************************)
Init == JmInit /\ ScIdle /\ UpInit /\ LgInit /\ VlIdle /\ PsIdle /\ BaInit /\ PgInit /\ uploads = {}

JobMatchStep == JmNext /\ UNCHANGED <<scVars, upVars, lgVars, vlVars, psVars, baVars, pgVars, uploads>>

ScoringStep == ScAnalyze /\ UNCHANGED <<jmVars, upVars, lgVars, vlVars, psVars, baVars, pgVars, uploads>>

UploadStep == UpNext /\ UNCHANGED <<jmVars, scVars, lgVars, vlVars, psVars, baVars, pgVars>>

LegacyUploadStep == LgNext /\ UNCHANGED <<jmVars, scVars, upVars, vlVars, psVars, baVars, pgVars>>

ValidateStep == VlValidate /\ UNCHANGED <<jmVars, scVars, upVars, lgVars, psVars, baVars, pgVars, uploads>>

ParseStep == PsParse /\ UNCHANGED <<jmVars, scVars, upVars, lgVars, vlVars, baVars, pgVars, uploads>>

\* every candidate and every answer of the model, before the function runs
InitScoring == JmInit /\ ScInit /\ UpInit /\ LgInit /\ VlIdle /\ PsIdle /\ BaInit /\ PgInit /\ uploads = {}

\* every file of the model, before the validator runs
InitValidate == JmInit /\ ScIdle /\ UpInit /\ LgInit /\ VlInit /\ PsIdle /\ BaInit /\ PgInit /\ uploads = {}

\* every answer of the model, before the parser runs
InitParse == JmInit /\ ScIdle /\ UpInit /\ LgInit /\ VlIdle /\ PsInit /\ BaInit /\ PgInit /\ uploads = {}

BatchStep == BaNext /\ UNCHANGED <<jmVars, scVars, upVars, lgVars, vlVars, psVars, pgVars, uploads>>

SpecBatch == Init /\ [][BatchStep]_vars

PageStep == PgNext /\ UNCHANGED <<jmVars, scVars, upVars, lgVars, vlVars, psVars, baVars, uploads>>

SpecPage == Init /\ [][PageStep]_vars

SpecParse == InitParse /\ [][ParseStep]_vars

SpecValidate == InitValidate /\ [][ValidateStep]_vars

SpecScoring == InitScoring /\ [][ScoringStep]_vars

SpecJobMatch == Init /\ [][JobMatchStep]_vars

SpecUpload == Init /\ [][UploadStep]_vars

SpecLegacyUpload == Init /\ [][LegacyUploadStep]_vars

(***************************************************************************)
(* Properties of the job-match endpoint                                    *)
(***************************************************************************)
InRange(x) == ~x.nan /\ x.v >= 0 /\ x.v <= 100

Leaderboard == jmResponse.result.leaderboard

JmSucceeded == jmPc = "done" /\ jmResponse.status = 200

\* C1: a request whose candidates are missing or empty, or whose
\* jobDescription is missing, empty or blank, is answered with a 400-class
\* error and issues no external-model call.
C1_InvalidRequestRejectedWithoutCalls ==
    (/\ jmPc # "idle"
     /\ ~jmBody.malformed
     /\ \/ jmBody.candidates = "absent"
        \/ (jmBody.candidates = "array" /\ Len(jmBody.list) = 0)
        \/ jmBody.jobDescription \in {"absent", "empty", "blank"})
    => (/\ jmResponse.status >= 400 /\ jmResponse.status <= 499
        /\ jmCalls.scoring = 0
        /\ jmCalls.insights = 0)

\* C2: the overall score and the four sub-scores of every CandidateScore
\* that analyzeCandidateJobMatch produces (from a parsed answer or as the
\* failure default) lie in 0..100, whatever the external model returned.
C2_ScoresWithinRange ==
    scResult # NoAnalysis =>
        /\ InRange(scResult.score)
        /\ InRange(scResult.matchBreakdown.skillsMatch)
        /\ InRange(scResult.matchBreakdown.experienceMatch)
        /\ InRange(scResult.matchBreakdown.educationMatch)
        /\ InRange(scResult.matchBreakdown.overallFit)

\* C3: a request with a non-empty candidate list and a non-blank job
\* description ends in a success response with exactly one CandidateScore per
\* submitted candidate, whichever candidates fail to be analysed.
C3_OneScorePerCandidate ==
    (/\ jmPc = "done"
     /\ ~jmBody.malformed
     /\ jmBody.candidates = "array"
     /\ Len(jmBody.list) >= 1
     /\ jmBody.jobDescription = "text")
    => (/\ jmResponse.status = 200
        /\ jmResponse.result.totalCandidates = Len(jmBody.list)
        /\ Len(Leaderboard) = Len(jmBody.list)
        /\ \A i \in 1..Len(jmBody.list) :
              Cardinality({j \in 1..Len(Leaderboard) :
                              Leaderboard[j].candidateId = jmBody.list[i].id}) = 1)

\* C4: a candidate whose scoring call threw, or whose answer was no JSON, has
\* in the response a CandidateScore with score 50, the four sub-scores 50,
\* strengths ['Unable to analyze'], weaknesses ['Analysis failed'], the
\* manual-review recommendation, and its own id, name and email.
C4_FailureDefault ==
    JmSucceeded =>
        \A i \in 1..Len(jmBody.list) :
            jmOutcome[i].kind \in {"throw", "unparsable"} =>
                \E j \in 1..Len(Leaderboard) :
                    /\ Leaderboard[j].candidateId = jmBody.list[i].id
                    /\ Leaderboard[j].name = jmBody.list[i].extractedData.name
                    /\ Leaderboard[j].email = jmBody.list[i].extractedData.email
                    /\ Leaderboard[j].score = Num(50)
                    /\ Leaderboard[j].matchBreakdown =
                          [skillsMatch |-> Num(50), experienceMatch |-> Num(50),
                           educationMatch |-> Num(50), overallFit |-> Num(50)]
                    /\ Leaderboard[j].strengths = <<"Unable to analyze">>
                    /\ Leaderboard[j].weaknesses = <<"Analysis failed">>
                    /\ Leaderboard[j].recommendation =
                          "Manual review recommended - automated analysis failed"

\* a response in which one call threw, one answer was no JSON and one parsed
C4_Witness ==
    /\ JmSucceeded
    /\ \E i, j, k \in 1..Len(jmBody.list) :
          /\ jmOutcome[i].kind = "throw"
          /\ jmOutcome[j].kind = "unparsable"
          /\ jmOutcome[k].kind = "object"

\* C5: the leaderboard is ordered by non-increasing overall score and the
\* entry at position i has rank i.
C5_SortedWithDenseRanks ==
    JmSucceeded =>
        /\ \A i \in 1..Len(Leaderboard) : Leaderboard[i].rank = i
        /\ \A i \in 1..(Len(Leaderboard) - 1) :
              /\ ~Leaderboard[i].score.nan
              /\ ~Leaderboard[i + 1].score.nan
              /\ Leaderboard[i].score.v >= Leaderboard[i + 1].score.v

\* the position of candidate id in the request's candidates array
PositionInRequest(id) == CHOOSE i \in 1..Len(jmBody.list) : jmBody.list[i].id = id

C7_CompletionOrderIrrelevant ==
    (jmPc \in {"scoring", "insights"} \/ JmSucceeded) =>
        /\ \A i \in 1..Len(jmBody.list) :
              jmAnalyses[i] =
                  IF i \in jmPending THEN NoAnalysis
                  ELSE AnalyzeCandidateJobMatch(jmBody.list[i], jmOutcome[i])
        /\ jmPc # "scoring" =>
              /\ Len(jmRanked) = Len(jmAnalyses)
              /\ \A i \in 1..Len(jmAnalyses) :
                    \E j \in 1..Len(jmRanked) : jmRanked[j] = WithRank(jmAnalyses[i], j)
              /\ ConsistentComparator(jmAnalyses) =>
                    jmRanked = AssignRanks(StableSort(jmAnalyses))
              /\ jmAverage = AverageScore(jmRanked)
        /\ JmSucceeded =>
              /\ Leaderboard = jmRanked
              /\ jmResponse.result.averageScore = jmAverage

\* the third call has completed while the first two are still outstanding
C7_Witness ==
    /\ jmPc = "scoring"
    /\ Len(jmBody.list) >= 3
    /\ {1, 2} \subseteq jmPending
    /\ 3 \notin jmPending
    /\ jmOutcome[3].kind = "object"

\* C8: when the insights call fails the response is still a success with the
\* leaderboard, ranks, topCandidates and averageScore computed before the
\* call; matchInsights is the default.
C8_InsightsFailureIsolated ==
    (jmPc = "done" /\ jmInsightsOut.kind # "none") =>
        /\ jmResponse.status = 200
        /\ Leaderboard = jmRanked
        /\ Len(Leaderboard) = Len(jmBody.list)
        /\ jmResponse.result.averageScore = jmAverage
        /\ jmResponse.result.topCandidates =
              [i \in 1..(IF Len(jmRanked) < 5 THEN Len(jmRanked) ELSE 5) |-> jmRanked[i]]
        /\ jmInsightsOut.kind \in {"throw", "unparsable"} =>
              jmResponse.result.matchInsights =
                  [bestSkillMatches |-> <<>>, commonGaps |-> <<>>,
                   recommendedActions |-> <<"Manual review recommended">>]

\* the insights call threw after four candidates were scored and ranked
C8_Witness ==
    /\ jmPc = "done"
    /\ jmInsightsOut.kind = "throw"
    /\ Len(Leaderboard) = 4
    /\ \A i \in 1..4 : jmOutcome[i].kind = "object"

(***************************************************************************)
(* Properties of the upload endpoints                                      *)
(***************************************************************************)
\* the extensions the file limits accept
AcceptedExtensions ==
    {".pdf", ".doc", ".docx", ".jpg", ".jpeg", ".png", ".gif", ".bmp", ".webp"}

\* C9: once an upload request has been answered, no file written to the
\* uploads directory for it remains there, in either upload endpoint.
C9_NoTempFileRemains ==
    /\ upPc = "done" =>
          \A i \in 1..Len(upFiles) : TempFilePath(i) \notin uploads
    /\ lgPc = "idle" =>
          \A n \in 1..lgServed : StoredFilePath(n) \notin uploads

\* C10: for a file above 10 MiB or with an extension outside the accepted
\* set the upload endpoint issues no external-model call and never returns a
\* completed ProcessingResult.
C10_ServerEnforcesLimits ==
    \A i \in 1..Len(upFiles) :
        (upFiles[i].size > 10 * 1024 * 1024 \/ upFiles[i].ext \notin AcceptedExtensions)
        => /\ upCalls[i].ocr = 0
           /\ upCalls[i].parse = 0
           /\ \A r \in 1..Len(upResults) :
                 upResults[r].file = i => upResults[r].status # "completed"

\* what file i's result has to be, as a function of file i and of the answers
\* given for file i only
OwnOutcome(i) ==
    LET a == upAnswers[i] IN
    IF a.save = "throw" THEN Failed(i, "ENOENT: no such file or directory")
    ELSE IF Dispatch(upFiles[i].ext) = "unsupported"
      THEN Failed(i, "Unsupported file format")
    ELSE IF a.ocr = "throw"
      THEN Failed(i, "Failed to extract text using OCR: call failed")
    ELSE IF IsBlank(a.ocr)
      THEN Failed(i, "Failed to extract text using OCR: No text could be extracted from the file using OCR")
    ELSE IF IsBlank(a.docx) THEN Failed(i, "No text could be extracted from the file")
    ELSE IF ParseFails(a.parse)
      THEN Failed(i, "Failed to parse AI response into structured data")
    ELSE Completed(i, NormalizeResume(a.parse.data))

\* C11: a batch upload of n >= 1 files is answered with a success carrying
\* exactly n ProcessingResults in the order of the files, and the result of
\* each file depends on that file and its own extraction and parse answers
\* only: a failure on file i neither aborts the request nor changes file j.
C11_BatchFailuresIsolated ==
    (upPc = "done" /\ Len(upFiles) >= 1) =>
        /\ upResponse.status = 200
        /\ Len(upResponse.results) = Len(upFiles)
        /\ \A i \in 1..Len(upFiles) : upResponse.results[i] = OwnOutcome(i)

\* the first file's OCR call threw and the second file was completed
C11_Witness ==
    /\ upPc = "done"
    /\ Len(upFiles) = 2
    /\ upAnswers[1].ocr = "throw"
    /\ upResponse.results[1].status = "failed"
    /\ upResponse.results[2].status = "completed"

Terminal(r) ==
    /\ r.status \in {"completed", "failed"}
    /\ r.status = "completed" => (r.hasData /\ r.error = "")
    /\ r.status = "failed" => (~r.hasData /\ r.error # "")

\* C12: a ProcessingResult starts in status processing and moves exactly once
\* to completed or failed, after which it never changes; every result pushed
\* or returned is terminal, a completed one with extractedData and no error,
\* a failed one with a non-empty error and no extractedData.
C12_ResultLifecycle ==
    /\ [](/\ upResult.status \in {"none", "processing", "completed", "failed"}
          /\ upResult.status \in {"completed", "failed"} => Terminal(upResult)
          /\ \A i \in 1..Len(upResults) : Terminal(upResults[i])
          /\ \A i \in 1..Len(upResponse.results) : Terminal(upResponse.results[i]))
    /\ [][/\ upResult' # upResult =>
                \/ /\ upResult.status \in {"none", "completed", "failed"}
                   /\ upResult' = Processing(upIdx)
                \/ /\ upResult.status = "processing"
                   /\ upResult'.file = upResult.file
                   /\ upResult'.status \in {"completed", "failed"}
          /\ \A i \in 1..Len(upResults) :
                Len(upResults') >= i /\ upResults'[i] = upResults[i]
          /\ upResults' # upResults =>
                /\ upResult.status = "processing"
                /\ upResults' = Append(upResults, upResult')
                /\ upResult'.status \in {"completed", "failed"}]_vars

\* a response with a completed result followed by a failed one
C12_Witness ==
    /\ upPc = "done"
    /\ Len(upResponse.results) = 2
    /\ upResponse.results[1].status = "completed"
    /\ upResponse.results[2].status = "failed"
    /\ upResult = upResponse.results[2]

\* C13: when the external text-extraction call throws for an uploaded file,
\* the response reports the file as failed with a non-empty error, in the
\* resume-parser upload endpoint and in the single-file upload endpoint; it
\* is never a success carrying text.
C13_ExtractionThrowReportedFailed ==
    /\ upPc = "done" =>
          \A i \in 1..Len(upFiles) :
              upAnswers[i].ocr = "throw" =>
                  /\ upResponse.results[i].status = "failed"
                  /\ upResponse.results[i].error # ""
    /\ (lgPc = "idle" /\ lgAnswer = "throw") =>
          ~(lgResponse.success /\ lgResponse.extractedText # "")

(***************************************************************************)
(* Properties of validateResumeFile                                        *)
(***************************************************************************)
Validated == vlResult # NoValidation

\* the extension of a name as the file limits mean it: from the last dot to
\* the end, compared without case; a name without a dot has none
ExtensionOf(name) ==
    IF LastIndexOf(name, ".") = -1 THEN <<>>
    ELSE ToLowerCase(SubSeq(name, LastIndexOf(name, ".") + 1, Len(name)))

\* C14: validateResumeFile returns invalid for every file above 10 MiB,
\* whatever its extension and MIME type, and does not reject a file of
\* exactly 10 MiB on its size.
C14_OversizeRejected ==
    Validated =>
        /\ vlFile.size > 10 * 1024 * 1024 => ~vlResult.valid
        /\ vlFile.size = 10 * 1024 * 1024 =>
              vlResult.error # "File size must be less than 10MB"

\* a file above the ceiling with an accepted extension and MIME type, validated
C14_Witness ==
    /\ Validated
    /\ vlFile.size > 10 * 1024 * 1024
    /\ ExtensionOf(vlFile.name) = <<".", "p", "d", "f">>
    /\ vlFile.type = "application/pdf"

\* C15: validateResumeFile returns invalid for every file whose extension is
\* not one of the nine accepted ones, even when its MIME type is allowed;
\* this includes names without a dot.
C15_UnsupportedExtensionRejected ==
    (Validated /\ ExtensionOf(vlFile.name) \notin AllowedExtensions) => ~vlResult.valid

\* a name without a dot, small enough and with an allowed MIME type, validated
C15_Witness ==
    /\ Validated
    /\ vlFile.name = <<"p", "d", "f">>
    /\ vlFile.size <= 10 * 1024 * 1024
    /\ vlFile.type = "application/pdf"

\* C16: for a file within the size ceiling and with an accepted extension,
\* validateResumeFile returns valid if and only if the MIME type is empty or
\* one of the allowed types.
C16_MimeAdvisory ==
    (/\ Validated
     /\ vlFile.size <= 10 * 1024 * 1024
     /\ ExtensionOf(vlFile.name) \in AllowedExtensions)
    => (vlResult.valid <=> (vlFile.type = "" \/ vlFile.type \in AllowedTypes))

(***************************************************************************)
(* Properties of text extraction and of the external calls                 *)
(***************************************************************************)
\* file i has been through the loop body and its file was written
Processed(i) == i <= Len(upResults) /\ upAnswers[i].save = "written"

\* C17: for a file whose extension is outside the accepted set, extraction
\* fails at once: neither the OCR call, nor the local DOCX library, nor the
\* structured-parse call is made for it, and its result is failed.
C17_UnsupportedExtensionNoCalls ==
    \A i \in 1..Len(upFiles) :
        upFiles[i].ext \notin AcceptedExtensions =>
            /\ upCalls[i].ocr = 0
            /\ upCalls[i].docx = 0
            /\ upCalls[i].parse = 0
            /\ i <= Len(upResults) => upResults[i].status = "failed"
            /\ Processed(i) => upResults[i].error = "Unsupported file format"

\* a .txt file and a name without extension were written and then refused
C17_Witness ==
    /\ upPc = "done"
    /\ Len(upFiles) = 2
    /\ upFiles[1].ext = ".txt"
    /\ upFiles[2].ext = ""
    /\ Processed(1)
    /\ Processed(2)

\* C18: for .pdf, .doc and the image extensions the OCR call is made and the
\* local DOCX library is never called; for .docx the local library is called
\* first and the OCR call is made if and only if the local attempt threw.
C18_DispatchByExtension ==
    \A i \in 1..Len(upFiles) :
        /\ upFiles[i].ext \in {".pdf", ".doc", ".jpg", ".jpeg", ".png", ".gif", ".bmp", ".webp"} =>
              /\ upCalls[i].docx = 0
              /\ Processed(i) => upCalls[i].ocr = 1
        /\ upFiles[i].ext = ".docx" =>
              /\ upCalls[i].ocr >= 1 => (upCalls[i].docx = 1 /\ upAnswers[i].docx = "throw")
              /\ Processed(i) =>
                    /\ upCalls[i].docx = 1
                    /\ (upCalls[i].ocr = 1) <=> (upAnswers[i].docx = "throw")
                    /\ upCalls[i].ocr <= 1

\* a .docx whose local extraction threw and went to OCR, next to a .doc
C18_Witness ==
    /\ upPc = "done"
    /\ Len(upFiles) = 2
    /\ upFiles[1].ext = ".docx"
    /\ upAnswers[1].docx = "throw"
    /\ upCalls[1].ocr = 1
    /\ upFiles[2].ext = ".doc"
    /\ upCalls[2].ocr = 1

\* C19: no external-model call is re-issued: per uploaded file at most one
\* OCR call and at most one structured-parse call; per job-match request
\* that passed the checks exactly one scoring call per candidate and at most
\* one insights call.
C19_NoRetry ==
    /\ \A i \in 1..Len(upFiles) : upCalls[i].ocr <= 1 /\ upCalls[i].parse <= 1
    /\ (/\ jmPc # "idle"
        /\ ~jmBody.malformed
        /\ ~NoCandidates(jmBody)
        /\ ~NoJobDescription(jmBody))
       => jmCalls.scoring = Len(jmBody.list)
    /\ jmCalls.insights <= 1

\* C20: extraction that yields empty or whitespace-only text, from OCR or
\* from the local DOCX library, fails the file with a 'no text could be
\* extracted' error, and the structured-parse call is not issued for it.
C20_BlankTextFails ==
    \A i \in 1..Len(upFiles) :
        (upAnswers[i].ocr \in {"empty", "blank"} \/ upAnswers[i].docx \in {"empty", "blank"}) =>
            /\ upCalls[i].parse = 0
            /\ i <= Len(upResults)
            /\ upResults[i].status = "failed"
            /\ upResults[i].error \in
                  {"No text could be extracted from the file",
                   "Failed to extract text using OCR: No text could be extracted from the file using OCR"}

\* whitespace from the local library for a .docx, an empty OCR answer for a .pdf
C20_Witness ==
    /\ upPc = "done"
    /\ Len(upFiles) = 2
    /\ upFiles[1].ext = ".docx"
    /\ upAnswers[1].docx = "blank"
    /\ upFiles[2].ext = ".pdf"
    /\ upAnswers[2].ocr = "empty"

(***************************************************************************)
(* Properties of parseResumeWithGemini                                     *)
(***************************************************************************)
\* C21: every ParsedResumeData the parser returns has skills, experience and
\* education as arrays (empty when the model's value is absent or no array)
\* and name, email, phone and summary as strings (empty when absent).
C21_NormalizedShape ==
    psResult.ok =>
        /\ \A f \in {"skills", "experience", "education"} :
              /\ psResult.data[f] \in {"array", "emptyArray"}
              /\ psAnswer.fields[f] # "array" => psResult.data[f] = "emptyArray"
        /\ \A f \in {"name", "email", "phone", "summary"} :
              /\ psResult.data[f] \in {"string", "emptyString"}
              /\ psAnswer.fields[f] = "absent" => psResult.data[f] = "emptyString"

\* the cleaned text has a '{' followed later by a '}'
HasBraces(clean) ==
    \E i, j \in 1..Len(clean) : i < j /\ clean[i] = "{" /\ clean[j] = "}"

\* the span from the first '{' to the last '}'
FirstToLast(clean) ==
    LET first == CHOOSE i \in 1..Len(clean) :
                     clean[i] = "{" /\ \A k \in 1..(i - 1) : clean[k] # "{"
        last == CHOOSE j \in 1..Len(clean) :
                    clean[j] = "}" /\ \A k \in (j + 1)..Len(clean) : clean[k] # "}"
    IN  [n \in 1..(last - first + 1) |-> clean[first + n - 1]]

\* C22: the cleanup strips the code-fence markers, then JSON.parse is given
\* exactly the span from the first '{' to the last '}' when the cleaned text
\* has a '{' followed later by a '}', and the whole cleaned text otherwise;
\* it is called once, and when it fails the function fails with 'Failed to
\* parse AI response into structured data'.
C22_CleanupThenSingleParse ==
    (psResult # NoParseResult /\ psAnswer.kind = "text") =>
        LET clean == CleanText(psAnswer.text) IN
        /\ \A n \in 1..Len(clean) : clean[n] # "FENCE"
        /\ Len(psParsed) = 1
        /\ psParsed[1] = IF HasBraces(clean) THEN FirstToLast(clean) ELSE clean
        /\ ~IsJsonObject(psParsed[1]) =>
              /\ ~psResult.ok
              /\ psResult.error = "Failed to parse AI response into structured data"
        /\ IsJsonObject(psParsed[1]) => psResult.ok

\* a fenced object with a nested object was cleaned and parsed
C22_Witness ==
    /\ psResult.ok
    /\ psAnswer.text = <<"FENCE", "{", "{", "}", "}">>

C28_InsightsAfterAllScoring ==
    /\ [](jmCalls.insights >= 1 =>
            /\ jmPending = {}
            /\ jmCalls.insights = 1
            /\ \A i \in 1..Len(jmBody.list) :
                  /\ jmOutcome[i].kind \in {"throw", "unparsable", "object"}
                  /\ jmAnalyses[i] # NoAnalysis
            /\ Len(jmRanked) = Len(jmBody.list)
            /\ \A i \in 1..Len(jmRanked) : jmRanked[i].rank = i
            /\ jmAverage = AverageScore(jmRanked))
    /\ [][jmCalls.insights >= 1 =>
            /\ jmRanked' = jmRanked
            /\ jmAverage' = jmAverage
            /\ jmPending' = {}
            /\ jmCalls' = jmCalls]_vars

\* the insights call is outstanding after four scoring calls, one of which threw
C28_Witness ==
    /\ jmPc = "insights"
    /\ jmCalls.insights = 1
    /\ Len(jmBody.list) = 4
    /\ jmOutcome[2].kind = "throw"
    /\ jmOutcome[4].kind = "object"

(***************************************************************************)
(* Properties of the batch analysis                                        *)
(***************************************************************************)
BaSucceeded == baPc = "done" /\ baResponse.status = 200

BaPool == baBody.list

BaTopSkills == baResponse.analysis.skillsAnalysis.topSkills

Occurrences(key, keys) == Cardinality({i \in 1..Len(keys) : keys[i] = key})

FirstAppearance(key, keys) ==
    CHOOSE i \in 1..Len(keys) : keys[i] = key /\ \A j \in 1..(i - 1) : keys[j] # key

\* p is n / total * 100 rounded to the nearest integer, halves up
IsPercentageOf(p, n, total) ==
    /\ ~p.nan
    /\ 2 * total * p.v <= 200 * n + total
    /\ 200 * n + total < 2 * total * (p.v + 1)

\* C23: in a batch analysis of N candidates every topSkills entry of a skill
\* s has count = the number of occurrences of s across all skill lists and
\* percentage = round(count / N * 100).
C23_TopSkillCounts ==
    BaSucceeded =>
        \A i \in 1..Len(BaTopSkills) :
            LET n == Occurrences(BaTopSkills[i].skill, SkillKeys(BaPool))
            IN  /\ BaTopSkills[i].count = JNumber(n)
                /\ IsPercentageOf(BaTopSkills[i].percentage, n, Len(BaPool))

\* a ranked list: at most limit entries, the first limit keys of the pool
\* when ordered by non-increasing count with equal counts in the order the
\* keys first appeared
RankedTop(listKeys, listCounts, keys, limit) ==
    /\ Len(listKeys) <= limit
    /\ Len(listKeys) = limit \/ Len(listKeys) = Cardinality(Range(keys))
    /\ \A i \in 1..Len(listKeys) : listCounts[i].t = "number"
    /\ \A i, j \in 1..Len(listKeys) :
          i < j =>
              /\ listCounts[i].v >= listCounts[j].v
              /\ listCounts[i].v = listCounts[j].v =>
                    FirstAppearance(listKeys[i], keys) < FirstAppearance(listKeys[j], keys)
    /\ \A k \in Range(keys) \ Range(listKeys) :
          \A i \in 1..Len(listKeys) : Occurrences(k, keys) <= listCounts[i].v

\* C24: topSkills, topCompanies, commonJobTitles and topUniversities are each
\* ordered by non-increasing count, equal counts in the order the key first
\* appeared in the pool, truncated to 10 (skills) or 5 (others) entries, and
\* no omitted key has a larger count than an included one.
C24_RankedLists ==
    BaSucceeded =>
        LET a == baResponse.analysis
            skills == a.skillsAnalysis.topSkills
            companies == a.experienceAnalysis.topCompanies
            titles == a.experienceAnalysis.commonJobTitles
            universities == a.educationAnalysis.topUniversities
        IN  /\ RankedTop([i \in 1..Len(skills) |-> skills[i].skill],
                         [i \in 1..Len(skills) |-> skills[i].count],
                         SkillKeys(BaPool), 10)
            /\ RankedTop([i \in 1..Len(companies) |-> companies[i].company],
                         [i \in 1..Len(companies) |-> companies[i].count],
                         CompanyKeys(BaPool), 5)
            /\ RankedTop([i \in 1..Len(titles) |-> titles[i].title],
                         [i \in 1..Len(titles) |-> titles[i].count],
                         TitleKeys(BaPool), 5)
            /\ RankedTop([i \in 1..Len(universities) |-> universities[i].university],
                         [i \in 1..Len(universities) |-> universities[i].count],
                         UniversityKeys(BaPool), 5)

\* C25: every candidate is counted in exactly one seniority bucket, chosen
\* from its number of experience entries alone: Entry for 0..2, Mid for 3 or
\* 4, Senior for 5 or more; the three totals sum to totalCandidates.
C25_SeniorityBuckets ==
    BaSucceeded =>
        LET dist == baResponse.analysis.experienceAnalysis.seniorityDistribution
            n(i) == Len(BaPool[i].experience)
        IN  /\ dist["Entry"] = Cardinality({i \in 1..Len(BaPool) : n(i) <= 2})
            /\ dist["Mid"] = Cardinality({i \in 1..Len(BaPool) : n(i) \in {3, 4}})
            /\ dist["Senior"] = Cardinality({i \in 1..Len(BaPool) : n(i) >= 5})
            /\ dist["Entry"] + dist["Mid"] + dist["Senior"]
                  = baResponse.analysis.summary.totalCandidates
            /\ baResponse.analysis.summary.totalCandidates = Len(BaPool)

\* a pool with candidates of 0, 2, 4 and 5 experience entries was analysed
C25_Witness ==
    /\ BaSucceeded
    /\ \A n \in {0, 2, 4, 5} : \E i \in 1..Len(BaPool) : Len(BaPool[i].experience) = n
    /\ baResponse.analysis.experienceAnalysis.seniorityDistribution["Entry"] = 2

\* C26: when the market-insights call fails the analysis is still returned as
\* a success whose summary, topSkills, seniorityDistribution, topCompanies,
\* commonJobTitles, topUniversities and degree/field distributions are those
\* returned when the call succeeds; emergingSkills, skillGaps,
\* competitiveSkills and improvementAreas are empty and
\* recommendedSalaryRange is 'Analysis unavailable'.
C26_InsightsFailureKeepsStatistics ==
    (baPc = "done" /\ baInsightsOut.kind \in {"throw", "unparsable", "null"}) =>
        LET a == baResponse.analysis
            ok == AnalysisOnSuccess(baStats, RawMarketInsights(TRUE))
        IN  /\ baResponse.status = 200
            /\ baResponse.success
            /\ a.summary = ok.summary
            /\ a.skillsAnalysis.topSkills = ok.skillsAnalysis.topSkills
            /\ a.experienceAnalysis = ok.experienceAnalysis
            /\ a.educationAnalysis = ok.educationAnalysis
            /\ a.summary.totalCandidates = Len(BaPool)
            /\ a.skillsAnalysis.emergingSkills = <<>>
            /\ a.skillsAnalysis.skillGaps = <<>>
            /\ a.marketInsights.competitiveSkills = <<>>
            /\ a.marketInsights.improvementAreas = <<>>
            /\ a.marketInsights.recommendedSalaryRange = "Analysis unavailable"

\* the insights call threw for a pool of several candidates with more than
\* ten distinct skills
C26_Witness ==
    /\ BaSucceeded
    /\ baInsightsOut.kind = "throw"
    /\ Len(BaPool) >= 2
    /\ Len(BaTopSkills) = 10
    /\ Len(baResponse.analysis.experienceAnalysis.topCompanies) = 5

\* C29: every topSkills entry has count <= totalCandidates and a percentage
\* in 0..100, also when a candidate lists the same skill more than once.
C29_SkillShareBounded ==
    BaSucceeded =>
        \A i \in 1..Len(BaTopSkills) :
            /\ BaTopSkills[i].count.t = "number"
            /\ BaTopSkills[i].count.v <= baResponse.analysis.summary.totalCandidates
            /\ InRange(BaTopSkills[i].percentage)

(***************************************************************************)
(* Properties of the resume-parser page                                    *)
(***************************************************************************)
PgShown == {pgResults[i] : i \in 1..Len(pgResults)}

\* the placeholders of every upload in flight are in parsingResults
PlaceholdersKept ==
    \A u \in pgInFlight :
        \A i \in 1..u.files :
            \E r \in PgShown : r.id = [temp |-> TRUE, upload |-> u.upload, index |-> i]

\* with no upload in flight there is no placeholder and isUploading is false
QuiescentClean ==
    pgInFlight = {} => (~pgIsUploading /\ \A r \in PgShown : ~r.id.temp)

\* every result a successful upload delivered is still in parsingResults
DeliveredKept == pgDelivered \subseteq PgShown

\* C30: for any interleaving of handleFiles invocations and their upload
\* responses, the placeholders of an upload stay in parsingResults until
\* that upload's own response arrives; once no upload is in flight there is
\* no placeholder and isUploading is false; no real result delivered by a
\* successful upload is dropped by another upload's completion.
C30_UploadsDoNotInterfere == PlaceholdersKept /\ QuiescentClean /\ DeliveredKept

====
